---- MODULE Spec2Model ----
(***************************************************************************)
(* Room-scoped state synchronisation of collab-canvas: the socket.io       *)
(* server of src/src/client/utils.js (lines 138-524).  The room registry   *)
(* `rooms`, the per-connection closure variables currentRoom/currentUser,  *)
(* the socket.io broadcast groups, and one action per event handler.       *)
(* Time is counted in hours.                                               *)
(***************************************************************************)
EXTENDS Integers, Sequences, FiniteSets, TLC

\* ------------------------------------------------------------------ bounds
\* Objects the rooms of the store are let hold, all together.
MaxObjects == 1
\* Successful joins the rooms of the store are let record, all together,
\* under Spec and under SpecOneRoom.
MaxJoins == 1
MaxRejoinJoins == 5
\* Objects a room is let hold under SpecCanvas.
MaxCanvasObjects == 3
\* Objects a room is let hold under SpecDelivery.
MaxDocument == 2
\* Messages let be on their way between the browsers and the server when
\* a browser sends another.
MaxInFlight == 2
\* enlivenObjects calls of one browser let wait for their callback.
MaxPending == 1
\* The clock stops advancing once it has reached MaxNow hours.
MaxNow == 48
\* Hours the clock advances between two observations.
ClockStep == 24
\* What the clock may advance between the two reads of Date.now() in
\* create-room, in the clock's unit.
ClockTick == 1

\* --------------------------------------------------------- program constants
\* expiresAt: Date.now() + (24 * 60 * 60 * 1000), in hours.
LIFETIME == 24
\* if (rejoinCount >= 3)
MAX_REJOINS == 3

\* ------------------------------------------------------------ value domains
\* The socket ids of the connections that are ever opened, in the order in
\* which they are handed out.
SocketIds == <<"s1", "s2">>
Conns == {SocketIds[i] : i \in 1..Len(SocketIds)}
\* Values generateRoomId() may return (Math.random based, never checked
\* against the store) and generateRoomPassword() may return.
RoomIds == {"R1", "R2"}
Passwords == {"pwA", "pwB"}
\* null / absent
NoRoom == "none"
NoUser == [id |-> "none", name |-> "none"]
NoUserId == "none"
NoColor == "none"
UserIds == {"u1"}
Names == {"ann"}
UserData == [name : Names, userId : UserIds \cup {NoUserId}]
ObjIds == {"o1", "o2"}
ObjData == {"v1", "v2"}
CanvasObjects == [id : ObjIds, data : ObjData]
Themes == {"dark", "light"}
Colors == {"#ffffff"}
ThemeData == [theme : Themes, color : Colors \cup {NoColor}]
CursorData == [x : {0}, y : {0}, userId : {NoUserId, "s1"}]

VARIABLES
    rooms,        \* const rooms = new Map<string, Room>()
    status,       \* per socket id: "idle" (not yet connected), "open", "closed"
    currentRoom,  \* per connection: let currentRoom: string | null
    currentUser,  \* per connection: let currentUser: User | null
    joined,       \* per connection: the socket.io rooms the socket is in
    now,          \* Date.now(), in hours
    sent,         \* the messages emitted by the handler that ran last
    created,      \* history: per roomId, the room created last under it
    joinCount,    \* history: per roomId and key, successful joins of the
                  \* room now stored under that id
    toServer,     \* per connection: messages the client emitted that the
                  \* server has not handled yet, oldest first
    toClient,     \* per connection: messages the server emitted to it that
                  \* the client has not handled yet, oldest first
    clientRoom,   \* per client: SocketManager.currentRoom
    clientUser,   \* per client: SocketManager.currentUser (its id)
    canvas,       \* per client: CanvasManager.canvas.getObjects()
    isReceivingRemoteChanges,
                  \* per client: CanvasManager.isReceivingRemoteChanges
    enlivening,   \* per client: the fabric.util.enlivenObjects calls whose
                  \* callback has not run yet, each with its objects
    undoStack,    \* HistoryManager.undoStack of one client
    redoStack,    \* HistoryManager.redoStack
    userId        \* HistoryManager.userId

\* The server, the browser of each connection, and one HistoryManager.
serverVars == <<rooms, status, currentRoom, currentUser, joined, now, sent,
                created, joinCount>>
clientVars == <<toServer, toClient, clientRoom, clientUser, canvas,
                isReceivingRemoteChanges, enlivening>>
historyVars == <<undoStack, redoStack, userId>>
browserVars == <<clientVars, historyVars>>

vars == <<serverVars, browserVars>>

\* ------------------------------------------------------------------ helpers
Range(s) == {s[i] : i \in 1..Len(s)}

OpenConns == {c \in Conns : status[c] = "open"}

\* room.users is a Map keyed by socket id: its keys, in insertion order.
UserKeys(users) == {u.id : u \in Range(users)}

\* Map.prototype.set on room.users: an existing key keeps its place.
UsersSet(users, id, user) ==
    IF id \in UserKeys(users)
    THEN [i \in 1..Len(users) |-> IF users[i].id = id THEN user ELSE users[i]]
    ELSE Append(users, user)

\* Map.prototype.delete on room.users.
UsersDelete(users, id) == SelectSeq(users, LAMBDA u : u.id # id)

\* { id: socket.id, ...userData }: the profile is opaque to the server; its
\* name stands for all the fields userData spreads into it.
MakeUser(c, userData) == [id |-> c, name |-> userData.name]

\* socket.to(roomId): every socket in the broadcast group but the sender.
Others(c, roomId) == {d \in OpenConns \ {c} : roomId \in joined[d]}

\* One delivery: the emitting socket, the broadcast group it addressed
\* (NoRoom for socket.emit), the receiving socket, the event and its payload.
Msg(from, group, to, event, body) ==
    [from |-> from, group |-> group, to |-> to, event |-> event, body |-> body]

\* Mutant of Emit: io.emit written for socket.emit.
EmitToEveryone(c, event, body) ==
    {Msg(c, NoRoom, d, event, body) : d \in OpenConns}

\* socket.emit(event, body): to the sender only.
Emit(c, event, body) == {Msg(c, NoRoom, c, event, body)}

\* Mutant of Broadcast: io.to(roomId) written for socket.to(roomId), which
\* reaches the sender as well.
BroadcastIncludesSender(c, roomId, event, body) ==
    {Msg(c, roomId, d, event, body) : d \in {x \in OpenConns : roomId \in joined[x]}}

\* socket.to(roomId).emit(event, body)
Broadcast(c, roomId, event, body) ==
    {Msg(c, roomId, d, event, body) : d \in Others(c, roomId)}

\* Mutant of Expired: >= written for >.
ExpiredAtDeadline(room) == now >= room.expiresAt

\* Mutant of Expired: the expiry check left out.
ExpiredNever(room) == FALSE

\* Date.now() > room.expiresAt
Expired(room) == now > room.expiresAt

\* Map.prototype.set / Map.prototype.delete on a Map modelled as a function.
Put(f, k, v) == [x \in DOMAIN f \cup {k} |-> IF x = k THEN v ELSE f[x]]
Del(f, k) == [x \in DOMAIN f \ {k} |-> f[x]]
EmptyMap == [x \in {} |-> 0]

\* The keys rejoinCounts may hold: userData.userId || socket.id
Keys == Conns \cup UserIds
UserIdToTrack(c, userData) ==
    IF userData.userId # NoUserId THEN userData.userId ELSE c

\* room.rejoinCounts.get(userIdToTrack) || 0
RejoinCountOf(room, key) ==
    IF key \in DOMAIN room.rejoinCounts THEN room.rejoinCounts[key] ELSE 0

\* Mutant of PasswordMatches: the password comparison left out.
PasswordNotCompared(room, password) == TRUE

\* room.password !== password, negated
PasswordMatches(room, password) == room.password = password

\* Mutant of RejoinLimitReached: > written for >=.
RejoinLimitOffByOne(rejoinCount) == rejoinCount > MAX_REJOINS

\* if (rejoinCount >= 3)
RejoinLimitReached(rejoinCount) == rejoinCount >= MAX_REJOINS

\* Mutant of NextRejoinCount: the first join counted as a rejoin.
NextRejoinCountAlwaysIncrements(room, key) == RejoinCountOf(room, key) + 1

\* if (rejoinCount > 0 || room.rejoinCounts.has(key)) set(key, rejoinCount + 1)
\* else set(key, 0)
NextRejoinCount(room, key) ==
    IF RejoinCountOf(room, key) > 0 \/ key \in DOMAIN room.rejoinCounts
    THEN RejoinCountOf(room, key) + 1
    ELSE 0

\* Mutant of NewRoom: the creator recorded in rejoinCounts as a first join.
NewRoomCountsCreator(c, user, password) ==
    [users |-> <<user>>,
     canvasState |-> [objects |-> <<>>, theme |-> "dark",
                      canvasColor |-> "#1a1a1a"],
     password |-> password,
     createdAt |-> now,
     expiresAt |-> now + LIFETIME,
     rejoinCounts |-> Put(EmptyMap, c, 0),
     creatorId |-> c]

\* The room create-room stores.  createdAt and expiresAt come from two
\* reads of Date.now() in the same handler; at the clock's resolution here
\* (hours) both read `now`.
NewRoom(c, user, password) ==
    [users |-> <<user>>,
     canvasState |-> [objects |-> <<>>, theme |-> "dark",
                      canvasColor |-> "#1a1a1a"],
     password |-> password,
     createdAt |-> now,
     expiresAt |-> now + LIFETIME,
     rejoinCounts |-> EmptyMap,
     creatorId |-> c]

Init ==
    /\ rooms = EmptyMap
    /\ status = [c \in Conns |-> "idle"]
    /\ currentRoom = [c \in Conns |-> NoRoom]
    /\ currentUser = [c \in Conns |-> NoUser]
    /\ joined = [c \in Conns |-> {}]
    /\ now = 0
    /\ sent = {}
    /\ created = EmptyMap
    /\ joinCount = EmptyMap
    /\ toServer = [c \in Conns |-> <<>>]
    /\ toClient = [c \in Conns |-> <<>>]
    /\ clientRoom = [c \in Conns |-> NoRoom]
    /\ clientUser = [c \in Conns |-> NoUserId]
    /\ canvas = [c \in Conns |-> <<>>]
    /\ isReceivingRemoteChanges = [c \in Conns |-> FALSE]
    /\ enlivening = [c \in Conns |-> <<>>]
    /\ undoStack = <<>>
    /\ redoStack = <<>>
    /\ userId = NoUserId

\* io.on('connection'): socket ids are handed out fresh, in order.
Connect(c) ==
    /\ status[c] = "idle"
    /\ \A i \in 1..Len(SocketIds) :
          SocketIds[i] = c => \A j \in 1..(i-1) : status[SocketIds[j]] # "idle"
    /\ status' = [status EXCEPT ![c] = "open"]
    /\ currentRoom' = [currentRoom EXCEPT ![c] = NoRoom]
    /\ currentUser' = [currentUser EXCEPT ![c] = NoUser]
    /\ sent' = {}
    /\ UNCHANGED <<rooms, joined, now, created, joinCount>>

\* socket.on('create-room'): roomId and password are what generateRoomId()
\* and generateRoomPassword() returned.
CreateRoom(c, userData, roomId, password) ==
    /\ status[c] = "open"
    /\ currentRoom' = [currentRoom EXCEPT ![c] = roomId]
    /\ currentUser' = [currentUser EXCEPT ![c] = MakeUser(c, userData)]
    /\ joined' = [joined EXCEPT ![c] = @ \cup {roomId}]
    /\ rooms' = Put(rooms, roomId, NewRoom(c, MakeUser(c, userData), password))
    /\ sent' = Emit(c, "room-created",
                    [roomId |-> roomId, password |-> password,
                     user |-> MakeUser(c, userData)])
    /\ created' = Put(created, roomId,
                      [password |-> password, expiresAt |-> now + LIFETIME])
    /\ joinCount' = Put(joinCount, roomId, [k \in Keys |-> 0])
    /\ UNCHANGED <<status, now>>

\* socket.on('create-room') with its two reads of Date.now() told apart:
\* createdAt is read at `now`, expiresAt is computed from a second read that
\* returns `later`, and the handler ends at that time.
CreateRoomReading(c, userData, roomId, password, later) ==
    /\ status[c] = "open"
    /\ later >= now
    /\ currentRoom' = [currentRoom EXCEPT ![c] = roomId]
    /\ currentUser' = [currentUser EXCEPT ![c] = MakeUser(c, userData)]
    /\ joined' = [joined EXCEPT ![c] = @ \cup {roomId}]
    /\ rooms' = Put(rooms, roomId,
                    [NewRoom(c, MakeUser(c, userData), password)
                        EXCEPT !.expiresAt = later + LIFETIME])
    /\ sent' = Emit(c, "room-created",
                    [roomId |-> roomId, password |-> password,
                     user |-> MakeUser(c, userData)])
    /\ created' = Put(created, roomId,
                      [password |-> password, expiresAt |-> later + LIFETIME])
    /\ joinCount' = Put(joinCount, roomId, [k \in Keys |-> 0])
    /\ now' = later
    /\ UNCHANGED status

\* The history of the rooms that stay in the store.
KeepCounts(newRooms) == [r \in DOMAIN newRooms |-> joinCount[r]]

\* socket.on('validate-room')
ValidateRoom(c, roomId, password) ==
    /\ status[c] = "open"
    /\ IF roomId \notin DOMAIN rooms
       THEN /\ sent' = Emit(c, "room-validation-failed",
                            [message |-> "Room not found"])
            /\ UNCHANGED rooms
       ELSE IF Expired(rooms[roomId])
       THEN /\ rooms' = Del(rooms, roomId)
            /\ sent' = Emit(c, "room-validation-failed",
                            [message |-> "Room has expired (24 hour limit)"])
       ELSE IF ~PasswordMatches(rooms[roomId], password)
       THEN /\ sent' = Emit(c, "room-validation-failed",
                            [message |-> "Incorrect password"])
            /\ UNCHANGED rooms
       ELSE /\ sent' = Emit(c, "room-validation-success", [message |-> "none"])
            /\ UNCHANGED rooms
    /\ joinCount' = KeepCounts(rooms')
    /\ UNCHANGED <<status, currentRoom, currentUser, joined, now, created>>

\* Mutant of JoinFails: the return without the emit.
JoinFailsSilently(c, message) ==
    /\ sent' = {}
    /\ UNCHANGED <<currentRoom, currentUser, joined>>

\* join-room answered with socket.emit('error', { message }) and a return.
JoinFails(c, message) ==
    /\ sent' = Emit(c, "error", [message |-> message])
    /\ UNCHANGED <<currentRoom, currentUser, joined>>

\* Mutant of RoomJoinedPayload: the joiner is sent an empty document.
RoomJoinedWithBlankCanvas(roomId, user, room, key) ==
    [roomId |-> roomId, user |-> user,
     canvasState |-> [room.canvasState EXCEPT !.objects = <<>>],
     users |-> room.users,
     rejoinCount |-> room.rejoinCounts[key]]

\* The payload of room-joined, read from the room after the joiner was put
\* into its users and rejoinCounts: { roomId, user, canvasState,
\* users: Array.from(room.users.values()), rejoinCount }.
RoomJoinedPayload(roomId, user, room, key) ==
    [roomId |-> roomId, user |-> user,
     canvasState |-> room.canvasState,
     users |-> room.users,
     rejoinCount |-> room.rejoinCounts[key]]

\* socket.on('join-room')
JoinRoom(c, roomId, password, userData) ==
    LET key == UserIdToTrack(c, userData)
        user == MakeUser(c, userData)
    IN
    /\ status[c] = "open"
    /\ IF roomId \notin DOMAIN rooms
       THEN /\ JoinFails(c, "Room not found or expired")
            /\ UNCHANGED <<rooms, joinCount>>
       ELSE IF Expired(rooms[roomId])
       THEN /\ JoinFails(c, "Room has expired (24 hour limit)")
            /\ rooms' = Del(rooms, roomId)
            /\ joinCount' = KeepCounts(rooms')
       ELSE IF ~PasswordMatches(rooms[roomId], password)
       THEN /\ JoinFails(c, "Incorrect password")
            /\ UNCHANGED <<rooms, joinCount>>
       ELSE IF RejoinLimitReached(RejoinCountOf(rooms[roomId], key))
       THEN /\ JoinFails(c, "Maximum rejoin limit reached (3 attempts)")
            /\ UNCHANGED <<rooms, joinCount>>
       ELSE LET room == rooms[roomId]
                users2 == UsersSet(room.users, c, user)
                count2 == NextRejoinCount(room, key)
                room2 == [room EXCEPT !.users = users2,
                                      !.rejoinCounts = Put(@, key, count2)]
            IN
            /\ currentRoom' = [currentRoom EXCEPT ![c] = roomId]
            /\ currentUser' = [currentUser EXCEPT ![c] = user]
            /\ joined' = [joined EXCEPT ![c] = @ \cup {roomId}]
            /\ rooms' = [rooms EXCEPT ![roomId] = room2]
            /\ sent' = Emit(c, "room-joined",
                            RoomJoinedPayload(roomId, user, room2, key))
                       \cup Broadcast(c, roomId, "user-joined", user)
            /\ joinCount' = [joinCount EXCEPT ![roomId][key] = @ + 1]
    /\ UNCHANGED <<status, now, created>>

\* const room = rooms.get(currentRoom); if (room)
RoomFound(c) == currentRoom[c] \in DOMAIN rooms

\* room.canvasState of the room the connection is bound to.
CanvasOf(c) == rooms[currentRoom[c]].canvasState

\* The store with that room's canvasState set to cs.
SetCanvas(c, cs) == [rooms EXCEPT ![currentRoom[c]].canvasState = cs]

\* Mutant of CanvasHandler: an unbound sender is told so.
CanvasHandlerReportsUnbound(c, newRooms, event, body) ==
    /\ status[c] = "open"
    /\ IF currentRoom[c] = NoRoom
       THEN /\ sent' = Emit(c, "error", [message |-> "Not in a room"])
            /\ UNCHANGED rooms
       ELSE /\ rooms' = newRooms
            /\ sent' = Broadcast(c, currentRoom[c], event, body)
    /\ UNCHANGED <<status, currentRoom, currentUser, joined, now, created,
                   joinCount>>

\* Mutant of CanvasHandler: the message is forwarded only when it changed
\* the stored room.
CanvasHandlerForwardsChangesOnly(c, newRooms, event, body) ==
    /\ status[c] = "open"
    /\ IF currentRoom[c] = NoRoom
       THEN /\ sent' = {}
            /\ UNCHANGED rooms
       ELSE /\ rooms' = newRooms
            /\ sent' = IF newRooms = rooms THEN {}
                       ELSE Broadcast(c, currentRoom[c], event, body)
    /\ UNCHANGED <<status, currentRoom, currentUser, joined, now, created,
                   joinCount>>

\* Mutant of CanvasHandler: a message for a room past its expiresAt is
\* refused as join-room refuses it.
CanvasHandlerChecksExpiry(c, newRooms, event, body) ==
    /\ status[c] = "open"
    /\ IF currentRoom[c] = NoRoom
       THEN /\ sent' = {}
            /\ UNCHANGED rooms
       ELSE IF RoomFound(c) /\ Expired(rooms[currentRoom[c]])
       THEN /\ sent' = Emit(c, "error",
                            [message |-> "Room has expired (24 hour limit)"])
            /\ UNCHANGED rooms
       ELSE /\ rooms' = newRooms
            /\ sent' = Broadcast(c, currentRoom[c], event, body)
    /\ UNCHANGED <<status, currentRoom, currentUser, joined, now, created,
                   joinCount>>

\* The shape shared by the canvas handlers: if (!currentRoom) return;
\* update the room if it is in the store (giving newRooms);
\* socket.to(currentRoom).emit(event, body).
CanvasHandler(c, newRooms, event, body) ==
    /\ status[c] = "open"
    /\ IF currentRoom[c] = NoRoom
       THEN /\ sent' = {}
            /\ UNCHANGED rooms
       ELSE /\ rooms' = newRooms
            /\ sent' = Broadcast(c, currentRoom[c], event, body)
    /\ UNCHANGED <<status, currentRoom, currentUser, joined, now, created,
                   joinCount>>

\* room.canvasState.objects.push(data.object)
PushObject(cs, obj) == [cs EXCEPT !.objects = Append(@, obj)]

\* objects.findIndex(obj => obj.id === id): 0 stands for -1.
FindIndex(objects, id) ==
    IF \E i \in 1..Len(objects) : objects[i].id = id
    THEN CHOOSE i \in 1..Len(objects) :
             /\ objects[i].id = id
             /\ \A j \in 1..(i-1) : objects[j].id # id
    ELSE 0

\* Mutant of ReplaceObject: an object that is not found is pushed.
ReplaceOrAppend(cs, obj) ==
    IF FindIndex(cs.objects, obj.id) # 0
    THEN [cs EXCEPT !.objects[FindIndex(cs.objects, obj.id)] = obj]
    ELSE [cs EXCEPT !.objects = Append(@, obj)]

\* Mutant of ReplaceObject: the stored object is kept (first write wins).
ReplaceDropped(cs, obj) == cs

\* Mutant of ReplaceObject: the object is spliced out and pushed at the end.
ReplaceMovesToEnd(cs, obj) ==
    IF FindIndex(cs.objects, obj.id) # 0
    THEN [cs EXCEPT !.objects =
             Append(SelectSeq(@, LAMBDA o : o.id # obj.id), obj)]
    ELSE cs

\* if (index !== -1) objects[index] = data.object
ReplaceObject(cs, obj) ==
    IF FindIndex(cs.objects, obj.id) # 0
    THEN [cs EXCEPT !.objects[FindIndex(cs.objects, obj.id)] = obj]
    ELSE cs

\* Mutant of FilterObject: splice(findIndex(...), 1), the first match only.
FilterFirstOnly(cs, objectId) ==
    IF FindIndex(cs.objects, objectId) # 0
    THEN [cs EXCEPT !.objects =
             [i \in 1..(Len(@) - 1) |->
                 IF i < FindIndex(cs.objects, objectId) THEN @[i] ELSE @[i + 1]]]
    ELSE cs

\* objects.filter(obj => obj.id !== data.objectId)
FilterObject(cs, objectId) ==
    [cs EXCEPT !.objects = SelectSeq(@, LAMBDA o : o.id # objectId)]

\* Mutant of ClearObjects: the canvasState reset to that of a new room.
ClearResetsCanvas(cs) ==
    [objects |-> <<>>, theme |-> "dark", canvasColor |-> "#1a1a1a"]

\* room.canvasState.objects = []
ClearObjects(cs) == [cs EXCEPT !.objects = <<>>]

\* canvasState.theme = data.theme; if (data.color) canvasColor = data.color
SetTheme(cs, data) ==
    [cs EXCEPT !.theme = data.theme,
               !.canvasColor = IF data.color # NoColor THEN data.color ELSE @]

\* socket.on('canvas:object:added')
ObjectAdded(c, obj) ==
    CanvasHandler(c,
                  IF RoomFound(c)
                  THEN SetCanvas(c, PushObject(CanvasOf(c), obj)) ELSE rooms,
                  "canvas:object:added", [object |-> obj])

\* socket.on('canvas:object:modified')
ObjectModified(c, obj) ==
    CanvasHandler(c,
                  IF RoomFound(c)
                  THEN SetCanvas(c, ReplaceObject(CanvasOf(c), obj)) ELSE rooms,
                  "canvas:object:modified", [object |-> obj])

\* socket.on('canvas:object:removed')
ObjectRemoved(c, objectId) ==
    CanvasHandler(c,
                  IF RoomFound(c)
                  THEN SetCanvas(c, FilterObject(CanvasOf(c), objectId))
                  ELSE rooms,
                  "canvas:object:removed", [objectId |-> objectId])

\* socket.on('canvas:clear')
CanvasClear(c) ==
    CanvasHandler(c,
                  IF RoomFound(c)
                  THEN SetCanvas(c, ClearObjects(CanvasOf(c))) ELSE rooms,
                  "canvas:clear", [none |-> "none"])

\* socket.on('theme-change')
ThemeChange(c, data) ==
    CanvasHandler(c,
                  IF RoomFound(c)
                  THEN SetCanvas(c, SetTheme(CanvasOf(c), data)) ELSE rooms,
                  "theme-change", data)

\* socket.on('cursor:position'): { userId: socket.id, ...data }
CursorPosition(c, data) ==
    CanvasHandler(c, rooms, "cursor:position",
                  [userId |-> IF data.userId # NoUserId THEN data.userId ELSE c,
                   x |-> data.x, y |-> data.y])

\* room.users.delete(socket.id) on the room the connection is bound to.
RoomWithout(c) ==
    [rooms[currentRoom[c]] EXCEPT !.users = UsersDelete(@, c)]

\* if (room.users.size === 0) rooms.delete(currentRoom)
DeleteIfEmpty(c) ==
    IF Len(RoomWithout(c).users) = 0
    THEN Del(rooms, currentRoom[c])
    ELSE [rooms EXCEPT ![currentRoom[c]] = RoomWithout(c)]

\* Mutant of LeaveRoom: socket.leave(currentRoom) left out.
LeaveRoomStaysInGroup(c) ==
    /\ status[c] = "open"
    /\ IF currentRoom[c] = NoRoom
       THEN /\ sent' = {}
            /\ UNCHANGED <<rooms, currentRoom, currentUser, joinCount>>
       ELSE /\ IF currentRoom[c] \in DOMAIN rooms
               THEN /\ rooms' = DeleteIfEmpty(c)
                    /\ sent' = Broadcast(c, currentRoom[c], "user-left",
                                         [userId |-> c])
               ELSE /\ sent' = {}
                    /\ UNCHANGED rooms
            /\ currentRoom' = [currentRoom EXCEPT ![c] = NoRoom]
            /\ currentUser' = [currentUser EXCEPT ![c] = NoUser]
            /\ joinCount' = KeepCounts(rooms')
    /\ UNCHANGED <<status, joined, now, created>>

\* socket.on('leave-room')
LeaveRoom(c) ==
    /\ status[c] = "open"
    /\ IF currentRoom[c] = NoRoom
       THEN /\ sent' = {}
            /\ UNCHANGED <<rooms, currentRoom, currentUser, joined, joinCount>>
       ELSE /\ IF currentRoom[c] \in DOMAIN rooms
               THEN /\ rooms' = DeleteIfEmpty(c)
                    /\ sent' = Broadcast(c, currentRoom[c], "user-left",
                                         [userId |-> c])
               ELSE /\ sent' = {}
                    /\ UNCHANGED rooms
            /\ joined' = [joined EXCEPT ![c] = @ \ {currentRoom[c]}]
            /\ currentRoom' = [currentRoom EXCEPT ![c] = NoRoom]
            /\ currentUser' = [currentUser EXCEPT ![c] = NoUser]
            /\ joinCount' = KeepCounts(rooms')
    /\ UNCHANGED <<status, now, created>>

\* socket.on('disconnect'): socket.io has taken the socket out of all its
\* broadcast groups before the handler runs; the closure variables are left
\* as they are.
Disconnect(c) ==
    /\ status[c] = "open"
    /\ status' = [status EXCEPT ![c] = "closed"]
    /\ joined' = [joined EXCEPT ![c] = {}]
    /\ IF currentRoom[c] # NoRoom /\ currentRoom[c] \in DOMAIN rooms
       THEN /\ rooms' = [rooms EXCEPT ![currentRoom[c]] = RoomWithout(c)]
            /\ sent' = Broadcast(c, currentRoom[c], "user-left", [userId |-> c])
       ELSE /\ sent' = {}
            /\ UNCHANGED rooms
    /\ UNCHANGED <<currentRoom, currentUser, now, created, joinCount>>

\* Mutant of Cleanup: the loop ends at the first room it deletes.
CleanupFirstOnly ==
    /\ rooms' = IF \E x \in DOMAIN rooms : Expired(rooms[x])
                THEN Del(rooms, CHOOSE x \in DOMAIN rooms : Expired(rooms[x]))
                ELSE rooms
    /\ joinCount' = KeepCounts(rooms')
    /\ sent' = {}
    /\ UNCHANGED <<status, currentRoom, currentUser, joined, now, created>>

\* Mutant of Cleanup: a room that still has users is spared.
CleanupSkipsOccupied ==
    /\ rooms' = [r \in {x \in DOMAIN rooms :
                            ~Expired(rooms[x]) \/ rooms[x].users # <<>>}
                    |-> rooms[r]]
    /\ joinCount' = KeepCounts(rooms')
    /\ sent' = {}
    /\ UNCHANGED <<status, currentRoom, currentUser, joined, now, created>>

\* setInterval cleanup: for (const [roomId, room] of rooms)
\*                          if (now > room.expiresAt) rooms.delete(roomId)
Cleanup ==
    /\ rooms' = [r \in {x \in DOMAIN rooms : ~Expired(rooms[x])} |-> rooms[r]]
    /\ joinCount' = KeepCounts(rooms')
    /\ sent' = {}
    /\ UNCHANGED <<status, currentRoom, currentUser, joined, now, created>>

\* Time passes: Date.now() grows between two handlers.
AdvanceClock ==
    /\ now + ClockStep <= MaxNow
    /\ now' = now + ClockStep
    /\ sent' = {}
    /\ UNCHANGED <<rooms, status, currentRoom, currentUser, joined, created,
                   joinCount>>

\* ------------------------------------------------- bounds on the environment
RECURSIVE SumOver(_, _)
SumOver(S, f) ==
    IF S = {} THEN 0
    ELSE LET x == CHOOSE y \in S : TRUE IN f[x] + SumOver(S \ {x}, f)

\* Successful joins recorded in the rooms of the store.
JoinsRecorded ==
    SumOver(DOMAIN rooms, [r \in DOMAIN rooms |-> SumOver(Keys, joinCount[r])])

\* Objects held by the rooms of the store.
ObjectsStored ==
    SumOver(DOMAIN rooms,
            [r \in DOMAIN rooms |-> Len(rooms[r].canvasState.objects)])

\* Whether join-room would pass its four checks.
JoinAccepted(c, roomId, password, userData) ==
    /\ roomId \in DOMAIN rooms
    /\ ~Expired(rooms[roomId])
    /\ PasswordMatches(rooms[roomId], password)
    /\ ~RejoinLimitReached(
           RejoinCountOf(rooms[roomId], UserIdToTrack(c, userData)))

\* ------------------------------------------------------------- the browser
\* Messages on their way between the browsers and the server.
InFlight ==
    SumOver(Conns, [c \in Conns |-> Len(toServer[c]) + Len(toClient[c])])

\* this.socket.emit(event, body) in the browser of connection c.
SocketEmit(queue, c, event, body) ==
    [queue EXCEPT ![c] = Append(@, [event |-> event, body |-> body])]

\* The oldest message the browser of c sent is the next the server handles.
Arrived(c, event) ==
    /\ toServer[c] # <<>>
    /\ Head(toServer[c]).event = event

\* The server took that message off the connection, and what its handler
\* emitted is on its way, one message to each receiver.
Forwarded(c) ==
    /\ toServer' = [toServer EXCEPT ![c] = Tail(@)]
    /\ toClient' =
          [d \in Conns |->
              IF \E x \in sent' : x.to = d
              THEN Append(toClient[d], CHOOSE x \in sent' : x.to = d)
              ELSE toClient[d]]
    /\ UNCHANGED <<clientRoom, clientUser, canvas, isReceivingRemoteChanges,
                   enlivening, historyVars>>

\* The oldest message on its way to the browser of c has that event.
Incoming(c, event) ==
    /\ toClient[c] # <<>>
    /\ Head(toClient[c]).event = event

\* The payload of that message.
Payload(c) == Head(toClient[c]).body

\* The browser took the message off the connection.
Received(c) == toClient' = [toClient EXCEPT ![c] = Tail(@)]

\* SocketManager.createRoom(username)
createRoom(c) ==
    /\ status[c] = "open"
    /\ toServer' = SocketEmit(toServer, c, "create-room",
                              [name |-> "ann", userId |-> NoUserId])
    /\ UNCHANGED <<serverVars, toClient, clientRoom, clientUser, canvas,
                   isReceivingRemoteChanges, enlivening, historyVars>>

\* SocketManager.joinRoom(roomId, username, password):
\* this.currentRoom = roomId; this.socket.emit('join-room', ...)
joinRoom(c, roomId, password) ==
    /\ status[c] = "open"
    /\ clientRoom' = [clientRoom EXCEPT ![c] = roomId]
    /\ toServer' = SocketEmit(toServer, c, "join-room",
                              [roomId |-> roomId, password |-> password,
                               userData |-> [name |-> "ann",
                                             userId |-> NoUserId]])
    /\ UNCHANGED <<serverVars, toClient, clientUser, canvas,
                   isReceivingRemoteChanges, enlivening, historyVars>>

\* SocketManager.leaveRoom()
leaveRoom(c) ==
    /\ status[c] = "open"
    /\ IF clientRoom[c] # NoRoom
       THEN /\ toServer' = SocketEmit(toServer, c, "leave-room",
                                      [none |-> "none"])
            /\ clientRoom' = [clientRoom EXCEPT ![c] = NoRoom]
       ELSE UNCHANGED <<toServer, clientRoom>>
    /\ UNCHANGED <<serverVars, toClient, clientUser, canvas,
                   isReceivingRemoteChanges, enlivening, historyVars>>

\* The browser whose HistoryManager is followed.
HistoryOwner == SocketIds[1]

\* this.socket.on('room-created', ...): the browser keeps the room and the
\* user it was told, and its HistoryManager the user id.
onRoomCreated(c) ==
    /\ Incoming(c, "room-created")
    /\ Received(c)
    /\ clientRoom' = [clientRoom EXCEPT ![c] = Payload(c).roomId]
    /\ clientUser' = [clientUser EXCEPT ![c] = Payload(c).user.id]
    /\ userId' = IF c = HistoryOwner THEN Payload(c).user.id ELSE userId
    /\ UNCHANGED <<serverVars, toServer, canvas, isReceivingRemoteChanges,
                   enlivening, undoStack, redoStack>>

\* The canvas 'object:added' listener for the objects canvas.add was given:
\* if (this.isReceivingRemoteChanges) return; ...sendCanvasObjectAdded.
\* What it appends to the messages of connection c.
AddedListener(queue, c, objects) ==
    IF isReceivingRemoteChanges[c] THEN queue
    ELSE [queue EXCEPT ![c] =
             @ \o [i \in 1..Len(objects) |->
                      [event |-> "canvas:object:added",
                       body |-> [object |-> objects[i]]]]]

\* fabric.util.enlivenObjects(objectsData, callback) under
\* isReceivingRemoteChanges = true: the callback, which adds the objects
\* and resets the flag, runs before the call returns or after it, as the
\* objects need nothing or something loaded.
Enliven(c, objects) ==
    \E later \in BOOLEAN :
       IF later
       THEN /\ enlivening' = [enlivening EXCEPT ![c] = Append(@, objects)]
            /\ isReceivingRemoteChanges' =
                  [isReceivingRemoteChanges EXCEPT ![c] = TRUE]
            /\ UNCHANGED canvas
       ELSE /\ canvas' = [canvas EXCEPT ![c] = @ \o objects]
            /\ isReceivingRemoteChanges' =
                  [isReceivingRemoteChanges EXCEPT ![c] = FALSE]
            /\ UNCHANGED enlivening

\* this.socket.on('room-joined', ...), loadCanvasState(data.canvasState) for
\* the snapshot it carries, and the user id for the HistoryManager.
onRoomJoined(c) ==
    /\ Incoming(c, "room-joined")
    /\ Received(c)
    /\ clientRoom' = [clientRoom EXCEPT ![c] = Payload(c).roomId]
    /\ clientUser' = [clientUser EXCEPT ![c] = Payload(c).user.id]
    /\ IF Payload(c).canvasState.objects # <<>>
       THEN Enliven(c, Payload(c).canvasState.objects)
       ELSE /\ isReceivingRemoteChanges' =
                  [isReceivingRemoteChanges EXCEPT ![c] = FALSE]
            /\ UNCHANGED <<canvas, enlivening>>
    /\ userId' = IF c = HistoryOwner THEN Payload(c).user.id ELSE userId
    /\ UNCHANGED <<serverVars, toServer, undoStack, redoStack>>

\* The events the browser hands on without keeping anything of them:
\* error, user-joined, user-left.
onNotice(c, event) ==
    /\ Incoming(c, event)
    /\ Received(c)
    /\ UNCHANGED <<serverVars, toServer, clientRoom, clientUser, canvas,
                   isReceivingRemoteChanges, enlivening, historyVars>>

\* CanvasManager.applyRemoteObjectAdded(data)
applyRemoteObjectAdded(c) ==
    /\ Incoming(c, "canvas:object:added")
    /\ Received(c)
    /\ Enliven(c, <<Payload(c).object>>)
    /\ UNCHANGED <<serverVars, toServer, clientRoom, clientUser, historyVars>>

\* The callback of an enlivenObjects call runs: canvas.add for each object,
\* with the 'object:added' listener, then isReceivingRemoteChanges = false.
EnlivenCallback(c, i) ==
    /\ i \in 1..Len(enlivening[c])
    /\ canvas' = [canvas EXCEPT ![c] = @ \o enlivening[c][i]]
    /\ toServer' = AddedListener(toServer, c, enlivening[c][i])
    /\ isReceivingRemoteChanges' =
          [isReceivingRemoteChanges EXCEPT ![c] = FALSE]
    /\ enlivening' =
          [enlivening EXCEPT ![c] =
              [j \in 1..(Len(@) - 1) |-> IF j < i THEN @[j] ELSE @[j + 1]]]
    /\ UNCHANGED <<serverVars, toClient, clientRoom, clientUser, historyVars>>

\* canvas.getObjects().find(o => o.id === id) finds an object.
HasId(objects, id) == \E i \in 1..Len(objects) : objects[i].id = id

\* obj.set(data.object.data) on the first canvas object with the id.
SetFirst(objects, obj) ==
    [i \in 1..Len(objects) |->
        IF i = FindIndex(objects, obj.id) THEN obj ELSE objects[i]]

\* canvas.remove of the first canvas object with the id.
RemoveFirst(objects, id) ==
    LET k == FindIndex(objects, id) IN
    IF k = 0 THEN objects
    ELSE [i \in 1..(Len(objects) - 1) |->
             IF i < k THEN objects[i] ELSE objects[i + 1]]

\* CanvasManager.applyRemoteObjectModified(data)
applyRemoteObjectModified(c) ==
    /\ Incoming(c, "canvas:object:modified")
    /\ Received(c)
    /\ canvas' = [canvas EXCEPT ![c] = SetFirst(@, Payload(c).object)]
    /\ isReceivingRemoteChanges' =
          [isReceivingRemoteChanges EXCEPT ![c] = FALSE]
    /\ UNCHANGED <<serverVars, toServer, clientRoom, clientUser, enlivening,
                   historyVars>>

\* CanvasManager.applyRemoteObjectRemoved(objectId)
applyRemoteObjectRemoved(c) ==
    /\ Incoming(c, "canvas:object:removed")
    /\ Received(c)
    /\ canvas' = [canvas EXCEPT ![c] = RemoveFirst(@, Payload(c).objectId)]
    /\ isReceivingRemoteChanges' =
          [isReceivingRemoteChanges EXCEPT ![c] = FALSE]
    /\ UNCHANGED <<serverVars, toServer, clientRoom, clientUser, enlivening,
                   historyVars>>

\* CanvasManager.applyRemoteClear()
applyRemoteClear(c) ==
    /\ Incoming(c, "canvas:clear")
    /\ Received(c)
    /\ canvas' = [canvas EXCEPT ![c] = <<>>]
    /\ isReceivingRemoteChanges' =
          [isReceivingRemoteChanges EXCEPT ![c] = FALSE]
    /\ UNCHANGED <<serverVars, toServer, clientRoom, clientUser, enlivening,
                   historyVars>>

\* The user of c is in the workspace of a room.
InWorkspace(c) ==
    /\ status[c] = "open"
    /\ clientRoom[c] # NoRoom
    /\ clientUser[c] # NoUserId

\* The user draws an object: fabric adds it to the canvas and the
\* 'object:added' listener runs.
DrawObject(c, obj) ==
    /\ InWorkspace(c)
    /\ canvas' = [canvas EXCEPT ![c] = Append(@, obj)]
    /\ toServer' = AddedListener(toServer, c, <<obj>>)
    /\ UNCHANGED <<serverVars, toClient, clientRoom, clientUser,
                   isReceivingRemoteChanges, enlivening, historyVars>>

\* The rectangle, circle, line and triangle tools: this.canvas.add(shape)
\* on mouse-down, with the 'object:added' listener, and
\* sendCanvasObjectAdded(serialized) on mouse-up for a shape that has size.
DrawShape(c, obj) ==
    /\ InWorkspace(c)
    /\ canvas' = [canvas EXCEPT ![c] = Append(@, obj)]
    /\ toServer' = SocketEmit(AddedListener(toServer, c, <<obj>>), c,
                              "canvas:object:added", [object |-> obj])
    /\ UNCHANGED <<serverVars, toClient, clientRoom, clientUser,
                   isReceivingRemoteChanges, enlivening, historyVars>>

\* The user moves or reshapes an object of the canvas: the
\* 'object:modified' listener runs.
TransformObject(c, obj) ==
    /\ InWorkspace(c)
    /\ HasId(canvas[c], obj.id)
    /\ canvas' = [canvas EXCEPT ![c] = SetFirst(@, obj)]
    /\ toServer' =
          IF isReceivingRemoteChanges[c] THEN toServer
          ELSE SocketEmit(toServer, c, "canvas:object:modified",
                          [object |-> obj])
    /\ UNCHANGED <<serverVars, toClient, clientRoom, clientUser,
                   isReceivingRemoteChanges, enlivening, historyVars>>

\* The eraser over an object of the canvas: this.canvas.remove(obj), with
\* the 'object:removed' listener, then sendCanvasObjectRemoved(obj.id).
EraseObject(c, id) ==
    /\ InWorkspace(c)
    /\ HasId(canvas[c], id)
    /\ canvas' = [canvas EXCEPT ![c] = RemoveFirst(@, id)]
    /\ toServer' =
          SocketEmit(IF isReceivingRemoteChanges[c] THEN toServer
                     ELSE SocketEmit(toServer, c, "canvas:object:removed",
                                     [objectId |-> id]),
                     c, "canvas:object:removed", [objectId |-> id])
    /\ UNCHANGED <<serverVars, toClient, clientRoom, clientUser,
                   isReceivingRemoteChanges, enlivening, historyVars>>

\* CanvasManager.clear()
clear(c) ==
    /\ InWorkspace(c)
    /\ canvas' = [canvas EXCEPT ![c] = <<>>]
    /\ isReceivingRemoteChanges' =
          [isReceivingRemoteChanges EXCEPT ![c] = FALSE]
    /\ toServer' = SocketEmit(toServer, c, "canvas:clear", [none |-> "none"])
    /\ UNCHANGED <<serverVars, toClient, clientRoom, clientUser, enlivening,
                   historyVars>>

\* The connection and membership handlers, with room ids and
\* passwords generated from the given sets and at most maxJoins successful
\* joins on record.
MembershipNext(roomIds, generated, maxJoins) ==
    \/ /\ \E c \in Conns : Connect(c)
       /\ UNCHANGED browserVars
    \/ /\ \E c \in Conns, u \in UserData, r \in roomIds, p \in generated :
             CreateRoom(c, u, r, p)
       /\ UNCHANGED browserVars
    \/ /\ \E c \in Conns, r \in roomIds, p \in Passwords : ValidateRoom(c, r, p)
       /\ UNCHANGED browserVars
    \/ /\ \E c \in Conns, r \in roomIds, p \in Passwords, u \in UserData :
             /\ JoinsRecorded < maxJoins \/ ~JoinAccepted(c, r, p, u)
             /\ JoinRoom(c, r, p, u)
       /\ UNCHANGED browserVars
    \/ /\ \E c \in Conns : LeaveRoom(c)
       /\ UNCHANGED browserVars
    \/ /\ \E c \in Conns : Disconnect(c)
       /\ UNCHANGED browserVars

\* The cleanup timer and the passing of time.
ExpiryNext ==
    \/ /\ Cleanup
       /\ UNCHANGED browserVars
    \/ /\ AdvanceClock
       /\ UNCHANGED browserVars

\* The canvas handlers, with payloads from the given sets.
CanvasNext(objects, themes, cursors) ==
    \/ /\ \E c \in Conns, obj \in objects :
             /\ ObjectsStored < MaxObjects
             /\ ObjectAdded(c, obj)
       /\ UNCHANGED browserVars
    \/ /\ \E c \in Conns, obj \in objects : ObjectModified(c, obj)
       /\ UNCHANGED browserVars
    \/ /\ \E c \in Conns, obj \in objects : ObjectRemoved(c, obj.id)
       /\ UNCHANGED browserVars
    \/ /\ \E c \in Conns : CanvasClear(c)
       /\ UNCHANGED browserVars
    \/ /\ \E c \in Conns, data \in themes : ThemeChange(c, data)
       /\ UNCHANGED browserVars
    \/ /\ \E c \in Conns, data \in cursors : CursorPosition(c, data)
       /\ UNCHANGED browserVars

\* Two room ids, so that an id can be generated twice and a connection can
\* be in two rooms, and the canvas handlers, with cursor payloads that do
\* and do not carry a userId of their own; the clock stands still.
Next ==
    \/ MembershipNext(RoomIds, {"pwA"}, MaxJoins)
    \/ CanvasNext({[id |-> "o1", data |-> "v1"]},
                  {[theme |-> "light", color |-> "#ffffff"]},
                  CursorData)

Spec == Init /\ [][Next]_vars

\* One room id, both passwords and the clock: the join protocol, its rejoin
\* limit and the expiry of rooms.
NextOneRoom ==
    \/ MembershipNext({"R1"}, Passwords, MaxRejoinJoins)
    \/ ExpiryNext

SpecOneRoom == Init /\ [][NextOneRoom]_vars

\* The members of one room and the handlers that change its object list and
\* theme: one room id and password, object payloads that share an id and
\* that differ in it, lists that hold an id twice, two members writing the
\* same object, and cursor:position.  The clock stands still;
\* validate-room, which changes nothing then, is left to Spec.
CanvasPayloads ==
    {[id |-> "o1", data |-> "v1"], [id |-> "o1", data |-> "v2"],
     [id |-> "o2", data |-> "v1"]}

NextCanvas ==
    \/ /\ \E c \in Conns : Connect(c)
       /\ UNCHANGED browserVars
    \/ /\ \E c \in Conns :
             CreateRoom(c, [name |-> "ann", userId |-> NoUserId], "R1", "pwA")
       /\ UNCHANGED browserVars
    \/ /\ \E c \in Conns, u \in {[name |-> "ann", userId |-> NoUserId]} :
             /\ JoinsRecorded < MaxJoins \/ ~JoinAccepted(c, "R1", "pwA", u)
             /\ JoinRoom(c, "R1", "pwA", u)
       /\ UNCHANGED browserVars
    \/ /\ \E c \in Conns : LeaveRoom(c)
       /\ UNCHANGED browserVars
    \/ /\ \E c \in Conns : Disconnect(c)
       /\ UNCHANGED browserVars
    \/ /\ \E c \in Conns, obj \in CanvasPayloads :
             /\ ObjectsStored < MaxCanvasObjects
             /\ ObjectAdded(c, obj)
       /\ UNCHANGED browserVars
    \/ /\ \E c \in Conns, obj \in CanvasPayloads : ObjectModified(c, obj)
       /\ UNCHANGED browserVars
    \/ /\ \E c \in Conns, obj \in CanvasPayloads : ObjectRemoved(c, obj.id)
       /\ UNCHANGED browserVars
    \/ /\ \E c \in Conns : CanvasClear(c)
       /\ UNCHANGED browserVars
    \/ /\ \E c \in Conns :
             ThemeChange(c, [theme |-> "light", color |-> "#ffffff"])
       /\ UNCHANGED browserVars
    \/ /\ \E c \in Conns, data \in CursorData : CursorPosition(c, data)
       /\ UNCHANGED browserVars

SpecCanvas == Init /\ [][NextCanvas]_vars

\* One room and a short object list: every handler that delivers a message
\* to the members of a room, with two senders whose mutation messages
\* interleave, and members that leave, disconnect and join while the
\* document is being written.  The clock stands still.
NextDelivery ==
    \/ /\ \E c \in Conns : Connect(c)
       /\ UNCHANGED browserVars
    \/ /\ \E c \in Conns :
             CreateRoom(c, [name |-> "ann", userId |-> NoUserId], "R1", "pwA")
       /\ UNCHANGED browserVars
    \/ /\ \E c \in Conns, u \in {[name |-> "ann", userId |-> NoUserId]} :
             /\ JoinsRecorded < MaxJoins \/ ~JoinAccepted(c, "R1", "pwA", u)
             /\ JoinRoom(c, "R1", "pwA", u)
       /\ UNCHANGED browserVars
    \/ /\ \E c \in Conns : LeaveRoom(c)
       /\ UNCHANGED browserVars
    \/ /\ \E c \in Conns : Disconnect(c)
       /\ UNCHANGED browserVars
    \/ /\ \E c \in Conns, obj \in CanvasPayloads :
             /\ ObjectsStored < MaxDocument
             /\ ObjectAdded(c, obj)
       /\ UNCHANGED browserVars
    \/ /\ \E c \in Conns, obj \in CanvasPayloads : ObjectModified(c, obj)
       /\ UNCHANGED browserVars
    \/ /\ \E c \in Conns, obj \in CanvasPayloads : ObjectRemoved(c, obj.id)
       /\ UNCHANGED browserVars
    \/ /\ \E c \in Conns : CanvasClear(c)
       /\ UNCHANGED browserVars
    \/ /\ \E c \in Conns :
             ThemeChange(c, [theme |-> "light", color |-> "#ffffff"])
       /\ UNCHANGED browserVars

SpecDelivery == Init /\ [][NextDelivery]_vars

\* Two room ids and the clock: rooms that expire at different times, the
\* cleanup timer, members that stay bound and keep sending canvas:clear,
\* and create-room handled while the clock ticks between its two reads (at
\* most one tick between two advances of the clock).
NextExpiry ==
    \/ /\ \E c \in Conns : Connect(c)
       /\ UNCHANGED browserVars
    \/ /\ \E c \in Conns, r \in RoomIds, later \in {now, now + ClockTick} :
             /\ later = now \/ now % ClockStep = 0
             /\ later <= MaxNow
             /\ CreateRoomReading(c, [name |-> "ann", userId |-> NoUserId],
                                  r, "pwA", later)
       /\ UNCHANGED browserVars
    \/ /\ \E c \in Conns, r \in RoomIds,
             u \in {[name |-> "ann", userId |-> NoUserId]} :
             /\ JoinsRecorded < MaxJoins \/ ~JoinAccepted(c, r, "pwA", u)
             /\ JoinRoom(c, r, "pwA", u)
       /\ UNCHANGED browserVars
    \/ /\ \E c \in Conns : CanvasClear(c)
       /\ UNCHANGED browserVars
    \/ /\ Cleanup
       /\ UNCHANGED browserVars
    \/ /\ AdvanceClock
       /\ UNCHANGED browserVars

SpecExpiry == Init /\ [][NextExpiry]_vars

\* The cleanup timer fires again and again (setInterval).
SpecExpiryFair ==
    SpecExpiry /\ WF_vars(Cleanup /\ UNCHANGED browserVars)

\* One room id and the clock: members that stay bound to a room while it
\* expires and is removed by the sweep, by validate-room or by join-room,
\* and that keep sending mutation messages before and after.
NextStale ==
    \/ /\ \E c \in Conns : Connect(c)
       /\ UNCHANGED browserVars
    \/ /\ \E c \in Conns :
             CreateRoom(c, [name |-> "ann", userId |-> NoUserId], "R1", "pwA")
       /\ UNCHANGED browserVars
    \/ /\ \E c \in Conns, u \in {[name |-> "ann", userId |-> NoUserId]} :
             /\ JoinsRecorded < MaxJoins \/ ~JoinAccepted(c, "R1", "pwA", u)
             /\ JoinRoom(c, "R1", "pwA", u)
       /\ UNCHANGED browserVars
    \/ /\ \E c \in Conns : ValidateRoom(c, "R1", "pwA")
       /\ UNCHANGED browserVars
    \/ /\ \E c \in Conns, obj \in CanvasPayloads :
             /\ ObjectsStored < MaxDocument
             /\ ObjectAdded(c, obj)
       /\ UNCHANGED browserVars
    \/ /\ \E c \in Conns, obj \in CanvasPayloads : ObjectModified(c, obj)
       /\ UNCHANGED browserVars
    \/ /\ \E c \in Conns, obj \in CanvasPayloads : ObjectRemoved(c, obj.id)
       /\ UNCHANGED browserVars
    \/ /\ \E c \in Conns : CanvasClear(c)
       /\ UNCHANGED browserVars
    \/ /\ \E c \in Conns :
             ThemeChange(c, [theme |-> "light", color |-> "#ffffff"])
       /\ UNCHANGED browserVars
    \/ /\ Cleanup
       /\ UNCHANGED browserVars
    \/ /\ AdvanceClock
       /\ UNCHANGED browserVars

SpecStale == Init /\ [][NextStale]_vars

\* ---------------------------------------------------------- HistoryManager
\* this.maxHistorySize
maxHistorySize == 100

\* Mutant of PushLimited: the oldest action is never dropped.
PushUnlimited(stack, action) == Append(stack, action)

\* this.undoStack.push(action); if (length > maxHistorySize) shift()
PushLimited(stack, action) ==
    IF Len(stack) + 1 > maxHistorySize
    THEN Tail(Append(stack, action))
    ELSE Append(stack, action)

\* Array.prototype.pop: the array without its last element.
Popped(stack) == SubSeq(stack, 1, Len(stack) - 1)

\* HistoryManager.recordAction(type, objectData, isRemote)
recordAction(type, isRemote) ==
    /\ IF isRemote \/ userId = NoUserId
       THEN UNCHANGED <<undoStack, redoStack>>
       ELSE /\ undoStack' = PushLimited(undoStack,
                                        [type |-> type, userId |-> userId])
            /\ redoStack' = <<>>
    /\ UNCHANGED <<serverVars, clientVars, userId>>

\* HistoryManager.canUndo() / canRedo()
canUndo == Len(undoStack) > 0
canRedo == Len(redoStack) > 0

\* HistoryManager.undo(), for actions whose applyUndo finds nothing to
\* change on the canvas (a MODIFY of an object the canvas does not hold, a
\* CLEAR of an empty canvas): applyUndo sets isReceivingRemoteChanges and
\* resets it.
undo ==
    /\ IF ~canUndo
       THEN UNCHANGED <<undoStack, redoStack, isReceivingRemoteChanges>>
       ELSE /\ undoStack' = Popped(undoStack)
            /\ redoStack' = Append(redoStack, undoStack[Len(undoStack)])
            /\ isReceivingRemoteChanges' =
                  [isReceivingRemoteChanges EXCEPT ![HistoryOwner] = FALSE]
    /\ UNCHANGED <<serverVars, toServer, toClient, clientRoom, clientUser,
                   canvas, enlivening, userId>>

\* HistoryManager.redo(), for the same actions.
redo ==
    /\ IF ~canRedo
       THEN UNCHANGED <<undoStack, redoStack, isReceivingRemoteChanges>>
       ELSE /\ redoStack' = Popped(redoStack)
            /\ undoStack' = Append(undoStack, redoStack[Len(redoStack)])
            /\ isReceivingRemoteChanges' =
                  [isReceivingRemoteChanges EXCEPT ![HistoryOwner] = FALSE]
    /\ UNCHANGED <<serverVars, toServer, toClient, clientRoom, clientUser,
                   canvas, enlivening, userId>>

\* HistoryManager.clear()
clearHistory ==
    /\ undoStack' = <<>>
    /\ redoStack' = <<>>
    /\ userId' = NoUserId
    /\ UNCHANGED <<serverVars, clientVars>>

\* The HistoryManager of one browser, which creates a room or joins it to
\* learn its user id.  The canvas stays empty and the recorded actions are
\* the ones undo and redo find nothing to change for; the first action of a
\* history is a CLEAR or a MODIFY, the later ones are MODIFY.
NextHistory ==
    \/ /\ Connect(HistoryOwner)
       /\ UNCHANGED browserVars
    \/ /\ InFlight = 0
       /\ "R1" \notin DOMAIN created
       /\ createRoom(HistoryOwner)
    \/ /\ InFlight = 0
       /\ userId = NoUserId
       /\ JoinsRecorded < MaxJoins
       /\ joinRoom(HistoryOwner, "R1", "pwA")
    \/ /\ Arrived(HistoryOwner, "create-room")
       /\ CreateRoom(HistoryOwner, Head(toServer[HistoryOwner]).body,
                     "R1", "pwA")
       /\ Forwarded(HistoryOwner)
    \/ /\ Arrived(HistoryOwner, "join-room")
       /\ JoinRoom(HistoryOwner, Head(toServer[HistoryOwner]).body.roomId,
                   Head(toServer[HistoryOwner]).body.password,
                   Head(toServer[HistoryOwner]).body.userData)
       /\ Forwarded(HistoryOwner)
    \/ onRoomCreated(HistoryOwner)
    \/ onRoomJoined(HistoryOwner)
    \/ onNotice(HistoryOwner, "error")
    \/ \E type \in IF undoStack = <<>> /\ redoStack = <<>>
                   THEN {"CLEAR", "MODIFY"} ELSE {"MODIFY"} :
          recordAction(type, FALSE)
    \/ recordAction("MODIFY", TRUE)
    \/ undo
    \/ redo
    \/ clearHistory

SpecHistory == Init /\ [][NextHistory]_vars

\* SocketManager and the server's membership handlers together, with one
\* room id whose generateRoomId() value is fresh and the right and a wrong
\* password.  Every message travels: a browser sends, the server handles
\* the oldest message of a connection and what it emits is queued for its
\* receivers, a browser handles the oldest message queued for it.
NextSocket ==
    \/ /\ \E c \in Conns : Connect(c)
       /\ UNCHANGED browserVars
    \/ \E c \in Conns :
          /\ InFlight < MaxInFlight
          /\ "R1" \notin DOMAIN created
          /\ \A d \in Conns : \A i \in 1..Len(toServer[d]) :
                toServer[d][i].event # "create-room"
          /\ createRoom(c)
    \/ \E c \in Conns, p \in Passwords :
          /\ InFlight < MaxInFlight
          /\ joinRoom(c, "R1", p)
    \/ \E c \in Conns :
          /\ InFlight < MaxInFlight
          /\ clientRoom[c] # NoRoom
          /\ leaveRoom(c)
    \/ \E c \in Conns :
          /\ Arrived(c, "create-room")
          /\ CreateRoom(c, Head(toServer[c]).body, "R1", "pwA")
          /\ Forwarded(c)
    \/ \E c \in Conns :
          /\ Arrived(c, "join-room")
          /\ \/ JoinsRecorded < MaxRejoinJoins
             \/ ~JoinAccepted(c, Head(toServer[c]).body.roomId,
                              Head(toServer[c]).body.password,
                              Head(toServer[c]).body.userData)
          /\ JoinRoom(c, Head(toServer[c]).body.roomId,
                      Head(toServer[c]).body.password,
                      Head(toServer[c]).body.userData)
          /\ Forwarded(c)
    \/ \E c \in Conns :
          /\ Arrived(c, "leave-room")
          /\ LeaveRoom(c)
          /\ Forwarded(c)
    \/ \E c \in Conns : onRoomCreated(c)
    \/ \E c \in Conns : onRoomJoined(c)
    \/ \E c \in Conns, event \in {"error", "user-joined", "user-left"} :
          onNotice(c, event)

SpecSocket == Init /\ [][NextSocket]_vars

\* CanvasManager, SocketManager and the server together: the first
\* connection creates the room, a browser joins from outside a room, nobody
\* leaves, and the users draw, reshape and erase one object id.
LocalObjects == {[id |-> "o1", data |-> "v1"], [id |-> "o1", data |-> "v2"]}

NextClient ==
    \/ /\ \E c \in Conns : Connect(c)
       /\ UNCHANGED browserVars
    \/ \E c \in {SocketIds[1]} :
          /\ "R1" \notin DOMAIN created
          /\ toServer[c] = <<>>
          /\ createRoom(c)
    \/ \E c \in {SocketIds[2]} :
          /\ InFlight < MaxInFlight
          /\ "R1" \in DOMAIN rooms
          /\ clientRoom[c] = NoRoom
          /\ joinRoom(c, "R1", "pwA")
    \/ \E c \in Conns :
          /\ Arrived(c, "create-room")
          /\ CreateRoom(c, Head(toServer[c]).body, "R1", "pwA")
          /\ Forwarded(c)
    \/ \E c \in Conns :
          /\ Arrived(c, "join-room")
          /\ JoinRoom(c, Head(toServer[c]).body.roomId,
                      Head(toServer[c]).body.password,
                      Head(toServer[c]).body.userData)
          /\ Forwarded(c)
    \/ \E c \in Conns :
          /\ Arrived(c, "canvas:object:added")
          /\ ObjectsStored < MaxObjects
          /\ ObjectAdded(c, Head(toServer[c]).body.object)
          /\ Forwarded(c)
    \/ \E c \in Conns :
          /\ Arrived(c, "canvas:object:modified")
          /\ ObjectModified(c, Head(toServer[c]).body.object)
          /\ Forwarded(c)
    \/ \E c \in Conns :
          /\ Arrived(c, "canvas:object:removed")
          /\ ObjectRemoved(c, Head(toServer[c]).body.objectId)
          /\ Forwarded(c)
    \/ \E c \in Conns :
          /\ Arrived(c, "canvas:clear")
          /\ CanvasClear(c)
          /\ Forwarded(c)
    \/ \E c \in Conns : onRoomCreated(c)
    \/ \E c \in Conns :
          /\ Len(enlivening[c]) < MaxPending
          /\ onRoomJoined(c)
    \/ \E c \in Conns : onNotice(c, "user-joined")
    \/ \E c \in Conns :
          /\ Len(canvas[c]) < MaxObjects
          /\ Len(enlivening[c]) < MaxPending
          /\ applyRemoteObjectAdded(c)
    \/ \E c \in Conns : applyRemoteObjectModified(c)
    \/ \E c \in Conns : applyRemoteObjectRemoved(c)
    \/ \E c \in Conns : applyRemoteClear(c)
    \/ \E c \in Conns : \E i \in 1..Len(enlivening[c]) :
          /\ InFlight < MaxInFlight
          /\ Len(canvas[c]) + Len(enlivening[c][i]) <= MaxObjects
          /\ EnlivenCallback(c, i)
    \/ \E c \in Conns, obj \in {[id |-> "o1", data |-> "v1"]} :
          /\ InFlight < MaxInFlight
          /\ Len(canvas[c]) < MaxObjects
          /\ DrawObject(c, obj)
    \/ \E c \in Conns, obj \in {[id |-> "o1", data |-> "v1"]} :
          /\ InFlight + 1 < MaxInFlight
          /\ Len(canvas[c]) < MaxObjects
          /\ DrawShape(c, obj)
    \/ \E c \in Conns, obj \in LocalObjects :
          /\ InFlight < MaxInFlight
          /\ TransformObject(c, obj)
    \/ \E c \in Conns, obj \in LocalObjects :
          /\ InFlight + 1 < MaxInFlight
          /\ EraseObject(c, obj.id)
    \/ \E c \in Conns :
          /\ InFlight < MaxInFlight
          /\ clear(c)

SpecClient == Init /\ [][NextClient]_vars

\* ==================================================================== claims
\* The messages of the last handler that went to a broadcast group, and the
\* sockets they were delivered to.
BroadcastTargets == {m.to : m \in {x \in sent : x.group # NoRoom}}

\* The rooms whose users map holds connection c.
RoomsHolding(c) == {r \in DOMAIN rooms : c \in UserKeys(rooms[r].users)}

\* The count join-room reads for a key of a room id (0 with no such room).
CountRead(roomId, key) ==
    IF roomId \in DOMAIN rooms THEN RejoinCountOf(rooms[roomId], key) ELSE 0

\* Connection c is answered room-joined and is bound to roomId.
JoinedNow(c, roomId) ==
    /\ currentRoom'[c] = roomId
    /\ \E m \in sent' : m.to = c /\ m.event = "room-joined"

\* C1: for every room that has been created, a join-room carrying its roomId
\* and password succeeds (the caller is bound and receives room-joined)
\* whenever now < expiresAt and rejoinCounts[key] < 3 for the supplied key.
C1_JoinAlwaysSucceeds ==
    [][\A c \in Conns, r \in RoomIds, p \in Passwords, u \in UserData :
          ( /\ JoinRoom(c, r, p, u)
            /\ r \in DOMAIN created
            /\ p = created[r].password
            /\ now < created[r].expiresAt
            /\ CountRead(r, UserIdToTrack(c, u)) < MAX_REJOINS )
          => JoinedNow(c, r)]_vars

\* C2: leave-room never removes a room from the store: every room stored
\* before it is stored after it, with its canvasState, password and
\* rejoinCounts, also when the leaving connection was the last member.
C2_LeaveKeepsRoom ==
    [][\A c \in Conns :
          LeaveRoom(c) =>
             \A r \in DOMAIN rooms :
                /\ r \in DOMAIN rooms'
                /\ rooms'[r].canvasState = rooms[r].canvasState
                /\ rooms'[r].password = rooms[r].password
                /\ rooms'[r].rejoinCounts = rooms[r].rejoinCounts]_vars

\* C3: in every reachable state a connection is in the users map of at most
\* one room and in at most one room's broadcast group.
C3_AtMostOneRoom ==
    \A c \in Conns :
       /\ Cardinality(RoomsHolding(c)) <= 1
       /\ Cardinality(joined[c]) <= 1

\* C4: create-room never reuses the roomId of a room in the store: no room
\* stored before a create-room is replaced or lost by it.
C4_CreateKeepsLiveRooms ==
    [][\A c \in Conns, u \in UserData, r \in RoomIds, p \in Passwords :
          CreateRoom(c, u, r, p) =>
             \A x \in DOMAIN rooms : x \in DOMAIN rooms' /\ rooms'[x] = rooms[x]]_vars

\* Connection c handled a canvas mutation message.
MutationBy(c) ==
    \/ \E obj \in CanvasObjects :
          ObjectAdded(c, obj) \/ ObjectModified(c, obj)
                              \/ ObjectRemoved(c, obj.id)
    \/ CanvasClear(c)
    \/ \E data \in ThemeData : ThemeChange(c, data)

\* C5: the canvasState of a room in the store changes only by a mutation
\* message of a connection that is in that room's users map; a connection
\* left bound to the id of a room that was replaced never changes the
\* canvasState of the room now stored under that id.
C5_OnlyMembersMutate ==
    [][\A r \in DOMAIN rooms :
          ( /\ r \in DOMAIN rooms'
            /\ rooms'[r].canvasState # rooms[r].canvasState
            /\ ~ \E c \in Conns, u \in UserData, p \in Passwords :
                    CreateRoom(c, u, r, p) )
          => \E c \in UserKeys(rooms[r].users) :
                currentRoom[c] = r /\ MutationBy(c)]_vars

\* Connection c, bound to room id R, ran a handler that broadcasts to R.
BroadcastsTo(c, R) ==
    \/ /\ currentRoom[c] = R
       /\ \/ MutationBy(c)
          \/ \E data \in CursorData : CursorPosition(c, data)
          \/ R \in DOMAIN rooms /\ (LeaveRoom(c) \/ Disconnect(c))
    \/ \E p \in Passwords, u \in UserData :
          JoinAccepted(c, R, p, u) /\ JoinRoom(c, R, p, u)

\* C6: every broadcast caused by a message of sender s bound to room R is
\* delivered to exactly the connections bound to R other than s.
C6_BroadcastToBoundOthers ==
    [][\A c \in Conns, R \in RoomIds :
          BroadcastsTo(c, R) =>
             BroadcastTargets' =
                {d \in Conns \ {c} : status'[d] = "open" /\ currentRoom'[d] = R}]_vars

\* C7: a join-room whose password does not match the room's password leaves
\* the users and rejoinCounts of every room as they were, adds no room, and
\* leaves the caller's binding and broadcast groups as they were; a room
\* that has not expired is left in the store untouched.
C7_WrongPasswordChangesNothing ==
    [][\A c \in Conns, r \in RoomIds, p \in Passwords, u \in UserData :
          ( /\ r \in DOMAIN rooms
            /\ rooms[r].password # p
            /\ JoinRoom(c, r, p, u) )
          => /\ \A x \in DOMAIN rooms' :
                   /\ x \in DOMAIN rooms
                   /\ rooms'[x].users = rooms[x].users
                   /\ rooms'[x].rejoinCounts = rooms[x].rejoinCounts
             /\ ~Expired(rooms[r]) => rooms' = rooms
             /\ currentRoom' = currentRoom
             /\ currentUser' = currentUser
             /\ joined' = joined
             /\ \A m \in sent' : m.event = "error" /\ m.to = c]_vars

\* A join-room with a wrong password was answered 'Incorrect password'
\* while a room with recorded joins is in the store.
C7_Witness ==
    /\ \E m \in sent : m.event = "error" /\ m.body.message = "Incorrect password"
    /\ \E r \in DOMAIN rooms : DOMAIN rooms[r].rejoinCounts # {}

\* C8: a join attempt with a key that has joined the room four times (a
\* first join and 3 rejoins) is answered with the error 'Maximum rejoin
\* limit reached (3 attempts)' to the caller only, and changes neither the
\* caller's binding nor any room's users or rejoinCounts.
C8_FourthRejoinRefused ==
    [][\A c \in Conns, r \in RoomIds, p \in Passwords, u \in UserData :
          ( /\ JoinRoom(c, r, p, u)
            /\ r \in DOMAIN rooms
            /\ ~Expired(rooms[r])
            /\ rooms[r].password = p
            /\ joinCount[r][UserIdToTrack(c, u)] = MAX_REJOINS + 1 )
          => /\ sent' = {Msg(c, NoRoom, c, "error",
                             [message |-> "Maximum rejoin limit reached (3 attempts)"])}
             /\ rooms' = rooms
             /\ currentRoom' = currentRoom
             /\ currentUser' = currentUser
             /\ joined' = joined]_vars

\* The rate-limit error was sent for a key with three rejoins on record.
C8_Witness ==
    /\ \E m \in sent :
          /\ m.event = "error"
          /\ m.body.message = "Maximum rejoin limit reached (3 attempts)"
    /\ \E r \in DOMAIN rooms, k \in Keys : joinCount[r][k] = MAX_REJOINS + 1

\* The stored counts of the rooms in the store agree with the joins made.
CountsMatchJoins ==
    \A r \in DOMAIN rooms, k \in Keys :
       IF joinCount[r][k] = 0
       THEN k \notin DOMAIN rooms[r].rejoinCounts
       ELSE /\ k \in DOMAIN rooms[r].rejoinCounts
            /\ rooms[r].rejoinCounts[k] = joinCount[r][k] - 1

\* C9: after n >= 1 successful joins with a key the stored rejoinCounts[key]
\* is n-1, room-joined reports the stored value, and a failed join, a leave
\* or a disconnect changes the rejoinCounts of no room in the store.
C9_RejoinCountIsJoinsMinusOne ==
    [][/\ CountsMatchJoins'
       /\ \A c \in Conns, r \in RoomIds, p \in Passwords, u \in UserData :
             JoinRoom(c, r, p, u) =>
                IF JoinedNow(c, r)
                THEN \A m \in sent' :
                        m.event = "room-joined" =>
                           /\ m.body.rejoinCount =
                                 rooms'[r].rejoinCounts[UserIdToTrack(c, u)]
                           /\ m.body.rejoinCount =
                                 joinCount'[r][UserIdToTrack(c, u)] - 1
                ELSE \A x \in DOMAIN rooms' :
                        rooms'[x].rejoinCounts = rooms[x].rejoinCounts
       /\ \A c \in Conns :
             (LeaveRoom(c) \/ Disconnect(c)) =>
                \A x \in DOMAIN rooms' :
                   rooms'[x].rejoinCounts = rooms[x].rejoinCounts]_vars

\* A key's third join was answered with rejoinCount 2.
C9_Witness ==
    /\ \E m \in sent : m.event = "room-joined" /\ m.body.rejoinCount = 2
    /\ \E r \in DOMAIN rooms, k \in Keys : joinCount[r][k] = 3

\* C10: in every reachable state a room that was created is in the store
\* if and only if now has not exceeded its expiresAt.
C10_StoredIffNotExpired ==
    \A r \in DOMAIN created :
       (r \in DOMAIN rooms) <=> ~(now > created[r].expiresAt)

\* The caller's binding and broadcast groups are as they were.
BindingUnchanged ==
    /\ currentRoom' = currentRoom
    /\ currentUser' = currentUser
    /\ joined' = joined

\* C11 (as stated): validate-room is read-only for every input: whatever
\* its outcome it leaves the room store, every room's users, canvasState and
\* rejoinCounts, and the caller's binding unchanged.
C11_ValidateIsReadOnly ==
    [][\A c \in Conns, r \in RoomIds, p \in Passwords :
          ValidateRoom(c, r, p) => rooms' = rooms /\ BindingUnchanged]_vars

\* C11 (amended): validate-room leaves the caller's binding and every room
\* that stays in the store unchanged, adds no room, and removes a room from
\* the store only if it is the room asked about and now > expiresAt; that
\* room it does remove.
C11_ValidateOnlyEvictsExpired ==
    [][\A c \in Conns, r \in RoomIds, p \in Passwords :
          ValidateRoom(c, r, p) =>
             /\ BindingUnchanged
             /\ \A x \in DOMAIN rooms' :
                   x \in DOMAIN rooms /\ rooms'[x] = rooms[x]
             /\ \A x \in DOMAIN rooms :
                   x \notin DOMAIN rooms' <=>
                      (x = r /\ now > rooms[x].expiresAt)]_vars

\* validate-room found a room expired and the room is gone from the store.
C11_Witness ==
    /\ \E m \in sent :
          /\ m.event = "room-validation-failed"
          /\ m.body.message = "Room has expired (24 hour limit)"
    /\ \E r \in DOMAIN created :
          r \notin DOMAIN rooms /\ now > created[r].expiresAt

\* C12: a disconnect of a connection bound to a room of the store removes
\* the connection from the room's users, sends user-left with its id to
\* every remaining member, and leaves the store as leave-room would have
\* left it from the same state, also when the connection was the last
\* member.
C12_DisconnectCleansLikeLeave ==
    [][\A c \in Conns :
          ( /\ currentRoom[c] # NoRoom
            /\ currentRoom[c] \in DOMAIN rooms
            /\ Disconnect(c) )
          => /\ rooms' = DeleteIfEmpty(c)
             /\ \A r \in DOMAIN rooms' :
                   r = currentRoom[c] => c \notin UserKeys(rooms'[r].users)
             /\ \A d \in UserKeys(RoomWithout(c).users) :
                   \E m \in sent' :
                      /\ m.to = d
                      /\ m.event = "user-left"
                      /\ m.body = [userId |-> c]]_vars

\* The error join-room gives for an input, by its checks in their order
\* ("none" when the join is accepted).
JoinFailureReason(c, r, p, u) ==
    IF r \notin DOMAIN rooms THEN "Room not found or expired"
    ELSE IF now > rooms[r].expiresAt THEN "Room has expired (24 hour limit)"
    ELSE IF rooms[r].password # p THEN "Incorrect password"
    ELSE IF CountRead(r, UserIdToTrack(c, u)) >= MAX_REJOINS
    THEN "Maximum rejoin limit reached (3 attempts)"
    ELSE "none"

\* C13: a join-room to a room whose expiresAt has passed fails with a
\* not-found/expired error whatever the password and the rejoin count, binds
\* the caller to nothing and adds it to no users map; the failure reason of
\* a join-room is chosen in the order room missing or expired, incorrect
\* password, rejoin limit.
C13_JoinExpiredFails ==
    [][\A c \in Conns, r \in RoomIds, p \in Passwords, u \in UserData :
          JoinRoom(c, r, p, u) =>
             /\ (r \in DOMAIN created /\ now > created[r].expiresAt) =>
                   /\ \E text \in {"Room not found or expired",
                                   "Room has expired (24 hour limit)"} :
                         sent' = {Msg(c, NoRoom, c, "error",
                                      [message |-> text])}
                   /\ BindingUnchanged
                   /\ \A x \in DOMAIN rooms' :
                         c \in UserKeys(rooms'[x].users) =>
                            x \in DOMAIN rooms /\ c \in UserKeys(rooms[x].users)
             /\ IF JoinFailureReason(c, r, p, u) = "none"
                THEN JoinedNow(c, r)
                ELSE sent' = {Msg(c, NoRoom, c, "error",
                                  [message |-> JoinFailureReason(c, r, p, u)])}]_vars

\* A join-room to a room past its expiresAt was refused as expired.
C13_Witness ==
    /\ \E m \in sent :
          /\ m.event = "error"
          /\ m.body.message = "Room has expired (24 hour limit)"
    /\ \E r \in DOMAIN created : now > created[r].expiresAt

\* The one message validate-room answers an input with, by its checks in
\* their order.
ValidateAnswer(c, r, p) ==
    IF r \notin DOMAIN rooms
    THEN Msg(c, NoRoom, c, "room-validation-failed",
             [message |-> "Room not found"])
    ELSE IF now > rooms[r].expiresAt
    THEN Msg(c, NoRoom, c, "room-validation-failed",
             [message |-> "Room has expired (24 hour limit)"])
    ELSE IF rooms[r].password # p
    THEN Msg(c, NoRoom, c, "room-validation-failed",
             [message |-> "Incorrect password"])
    ELSE Msg(c, NoRoom, c, "room-validation-success", [message |-> "none"])

\* C14: validate-room answers every request with exactly one event, to the
\* caller only: 'Room not found' if the room is absent, otherwise expired if
\* now > expiresAt (also when the password is wrong), otherwise 'Incorrect
\* password' if the password differs, otherwise room-validation-success.
C14_ValidateAnswersInOrder ==
    [][\A c \in Conns, r \in RoomIds, p \in Passwords :
          ValidateRoom(c, r, p) => sent' = {ValidateAnswer(c, r, p)}]_vars

\* validate-room answered 'Incorrect password' for a room at its deadline
\* (now = expiresAt, not yet expired) while another connection was open.
C14_Witness ==
    /\ \E m \in sent :
          /\ m.event = "room-validation-failed"
          /\ m.body.message = "Incorrect password"
    /\ \E r \in DOMAIN rooms : now = rooms[r].expiresAt
    /\ Cardinality(OpenConns) = 2

\* A join-room to a room of the store that has not expired, with a password
\* that differs from the room's.
WrongPasswordJoin(c, r, p, u) ==
    /\ r \in DOMAIN rooms
    /\ ~(now > rooms[r].expiresAt)
    /\ rooms[r].password # p
    /\ JoinRoom(c, r, p, u)

\* C15 (as stated): a join to an existing, unexpired room with a wrong
\* password is answered to the caller with a room-validation-failed event
\* whose message contains "Incorrect password".
C15_WrongPasswordValidationFailed ==
    [][\A c \in Conns, r \in RoomIds, p \in Passwords, u \in UserData :
          WrongPasswordJoin(c, r, p, u) =>
             \E m \in sent' :
                /\ m.to = c
                /\ m.event = "room-validation-failed"
                /\ m.body.message = "Incorrect password"]_vars

\* C15 (amended): a join-room to an existing, unexpired room with a wrong
\* password is answered to the caller, and to nobody else, with an error
\* event whose message is "Incorrect password".
C15_WrongPasswordError ==
    [][\A c \in Conns, r \in RoomIds, p \in Passwords, u \in UserData :
          WrongPasswordJoin(c, r, p, u) =>
             sent' = {Msg(c, NoRoom, c, "error",
                          [message |-> "Incorrect password"])}]_vars

\* An unbound connection's join-room was answered 'Incorrect password' by a
\* room that is in the store and has not expired.
C15_Witness ==
    \E c \in Conns :
       /\ sent = {Msg(c, NoRoom, c, "error", [message |-> "Incorrect password"])}
       /\ currentRoom[c] = NoRoom
       /\ \E r \in DOMAIN rooms : ~(now > rooms[r].expiresAt)

\* The object list of the room connection c is bound to, before and after
\* the step.
ObjectsBefore(c) == rooms[currentRoom[c]].canvasState.objects
ObjectsAfter(c) == rooms'[currentRoom[c]].canvasState.objects

\* Connection c is bound to a room that is in the store.
BoundToStored(c) == currentRoom[c] # NoRoom /\ currentRoom[c] \in DOMAIN rooms

\* The list holds an object with the id.
HoldsId(objects, id) == \E i \in 1..Len(objects) : objects[i].id = id

\* The entries of a list with another id, in their order.
RECURSIVE OthersInOrder(_, _)
OthersInOrder(objects, id) ==
    IF objects = <<>> THEN <<>>
    ELSE IF Head(objects).id = id THEN OthersInOrder(Tail(objects), id)
    ELSE <<Head(objects)>> \o OthersInOrder(Tail(objects), id)

\* C16: after object:removed(id) of a connection bound to a room of the
\* store the room's objects hold no object with that id, however many were
\* added with it; the other objects keep their relative order; and an
\* object:removed for an id the list does not hold (the same message
\* processed a second time) leaves the list as it was.
C16_RemoveRemovesAll ==
    [][\A c \in Conns, id \in ObjIds :
          (BoundToStored(c) /\ ObjectRemoved(c, id)) =>
             /\ ~HoldsId(ObjectsAfter(c), id)
             /\ ObjectsAfter(c) = OthersInOrder(ObjectsBefore(c), id)
             /\ ~HoldsId(ObjectsBefore(c), id) => rooms' = rooms]_vars

\* object:removed for o1 was delivered and the room is left with two other
\* objects.
C16_Witness ==
    /\ \E m \in sent :
          m.event = "canvas:object:removed" /\ m.body.objectId = "o1"
    /\ \E r \in DOMAIN rooms :
          /\ Len(rooms[r].canvasState.objects) = 2
          /\ ~HoldsId(rooms[r].canvasState.objects, "o1")

\* The open connections other than c that are bound to c's room or are in
\* its users map.
OtherMembers(c) ==
    {d \in Conns \ {c} :
        /\ status[d] = "open"
        /\ \/ currentRoom[d] = currentRoom[c]
           \/ d \in UserKeys(rooms[currentRoom[c]].users)}

\* C17: object:modified for an id that is not in the room's object list
\* leaves the objects (and the rest of the store) as they were, and the
\* message is still delivered to every other member of the room.
C17_ModifyMissingKeepsList ==
    [][\A c \in Conns, obj \in CanvasObjects :
          ( /\ BoundToStored(c)
            /\ ~HoldsId(ObjectsBefore(c), obj.id)
            /\ ObjectModified(c, obj) )
          => /\ rooms' = rooms
             /\ \A d \in OtherMembers(c) :
                   Msg(c, currentRoom[c], d, "canvas:object:modified",
                       [object |-> obj]) \in sent']_vars

\* object:modified for o1 was delivered while the room holds objects, none
\* of them o1.
C17_Witness ==
    /\ \E m \in sent :
          m.event = "canvas:object:modified" /\ m.body.object.id = "o1"
    /\ \E r \in DOMAIN rooms :
          /\ rooms[r].canvasState.objects # <<>>
          /\ ~HoldsId(rooms[r].canvasState.objects, "o1")

\* The entry a lookup by id finds in the list is obj.
StoredFor(objects, obj) ==
    \E i \in 1..Len(objects) :
       /\ objects[i] = obj
       /\ \A j \in 1..(i - 1) : objects[j].id # obj.id

\* C18: when two different connections are bound to the same room and one
\* of them sends object:modified for an id the list holds, the object
\* stored for that id after the step is that message's payload: whichever
\* of two such messages the server processes last is the one stored.
C18_LastWriteWins ==
    [][\A c \in Conns :
          ( /\ BoundToStored(c)
            /\ \E d \in Conns :
                  d # c /\ status[d] = "open" /\ currentRoom[d] = currentRoom[c]
            /\ \A m \in sent' : m.event = "canvas:object:modified" )
          => \A obj \in CanvasObjects :
                ( /\ HoldsId(ObjectsBefore(c), obj.id)
                  /\ ObjectModified(c, obj) )
                => StoredFor(ObjectsAfter(c), obj)]_vars

\* s2's object:modified carrying (o1, v2) reached s1, both are bound to the
\* same room, and the room stores that payload for o1.
C18_Witness ==
    /\ currentRoom["s1"] # NoRoom
    /\ currentRoom["s1"] = currentRoom["s2"]
    /\ Msg("s2", currentRoom["s2"], "s1", "canvas:object:modified",
           [object |-> [id |-> "o1", data |-> "v2"]]) \in sent
    /\ currentRoom["s1"] \in DOMAIN rooms
    /\ StoredFor(rooms[currentRoom["s1"]].canvasState.objects,
                 [id |-> "o1", data |-> "v2"])

\* C19: object:modified for an id the list holds replaces the entry at its
\* existing index: the length of the list and the sequence of ids are as
\* before and every entry at another index is untouched.
C19_ModifyReplacesInPlace ==
    [][\A c \in Conns :
          ( /\ BoundToStored(c)
            /\ \A m \in sent' : m.event = "canvas:object:modified" )
          => \A obj \in CanvasObjects :
                ( /\ HoldsId(ObjectsBefore(c), obj.id)
                  /\ ObjectModified(c, obj) )
                => /\ Len(ObjectsAfter(c)) = Len(ObjectsBefore(c))
                   /\ \A i \in 1..Len(ObjectsBefore(c)) :
                         ObjectsAfter(c)[i].id = ObjectsBefore(c)[i].id
                   /\ \E i \in 1..Len(ObjectsBefore(c)) :
                         /\ ObjectsBefore(c)[i].id = obj.id
                         /\ \A j \in 1..(i - 1) :
                               ObjectsBefore(c)[j].id # obj.id
                         /\ ObjectsAfter(c)[i] = obj
                         /\ \A j \in 1..Len(ObjectsBefore(c)) :
                               j # i =>
                                  ObjectsAfter(c)[j] = ObjectsBefore(c)[j]]_vars

\* object:modified carrying (o1, v2) was delivered and the room holds that
\* payload first in a list of three, followed by o2.
C19_Witness ==
    /\ \E m \in sent :
          /\ m.event = "canvas:object:modified"
          /\ m.body.object = [id |-> "o1", data |-> "v2"]
    /\ \E r \in DOMAIN rooms :
          /\ Len(rooms[r].canvasState.objects) = 3
          /\ rooms[r].canvasState.objects[1] = [id |-> "o1", data |-> "v2"]
          /\ rooms[r].canvasState.objects[2].id = "o2"

\* C20: canvas:clear of a connection bound to a room of the store sets the
\* room's objects to the empty list and leaves its theme, canvasColor,
\* users, password, expiresAt and rejoinCounts, and every other room, as
\* they were.
C20_ClearKeepsTheRest ==
    [][\A c \in Conns :
          (BoundToStored(c) /\ CanvasClear(c)) =>
             /\ DOMAIN rooms' = DOMAIN rooms
             /\ ObjectsAfter(c) = <<>>
             /\ \A r \in DOMAIN rooms :
                   /\ rooms'[r].canvasState.theme = rooms[r].canvasState.theme
                   /\ rooms'[r].canvasState.canvasColor =
                         rooms[r].canvasState.canvasColor
                   /\ rooms'[r].users = rooms[r].users
                   /\ rooms'[r].password = rooms[r].password
                   /\ rooms'[r].expiresAt = rooms[r].expiresAt
                   /\ rooms'[r].rejoinCounts = rooms[r].rejoinCounts
                   /\ r # currentRoom[c] => rooms'[r] = rooms[r]]_vars

\* canvas:clear was delivered and the room has no objects and the theme and
\* colour set before the clear.
C20_Witness ==
    /\ \E m \in sent : m.event = "canvas:clear"
    /\ \E r \in DOMAIN rooms :
          /\ rooms[r].canvasState.objects = <<>>
          /\ rooms[r].canvasState.theme = "light"
          /\ rooms[r].canvasState.canvasColor = "#ffffff"
          /\ DOMAIN rooms[r].rejoinCounts # {}

\* C21: cursor:position changes no room state, and every cursor:position
\* delivered to other members carries a userId equal to the sender's
\* connection id, whatever the client's payload holds, a userId field of its
\* own included.
C21_CursorTaggedWithSender ==
    [][\A c \in Conns, data \in CursorData :
          (currentRoom[c] # NoRoom /\ CursorPosition(c, data)) =>
             /\ rooms' = rooms
             /\ \A m \in sent' : m.body.userId = c]_vars

\* A canvas or cursor message of connection c was handled.
CanvasMessageBy(c) ==
    \/ MutationBy(c)
    \/ \E data \in CursorData : CursorPosition(c, data)

\* C22: for an Unbound connection each of object:added, object:modified,
\* object:removed, clear, theme-change and cursor:position changes no room's
\* state, delivers nothing to any connection and sends no error to the
\* caller.
C22_UnboundMessagesIgnored ==
    [][\A c \in Conns :
          (currentRoom[c] = NoRoom /\ CanvasMessageBy(c)) =>
             /\ rooms' = rooms
             /\ sent' = {}
             /\ BindingUnchanged]_vars

\* A connection that has left its room is open and unbound beside a room
\* that holds another member and an object, and the handler that ran last
\* delivered nothing.
C22_Witness ==
    /\ sent = {}
    /\ \E c \in OpenConns, r \in DOMAIN rooms :
          /\ currentRoom[c] = NoRoom
          /\ joinCount[r][c] > 0
          /\ rooms[r].users # <<>>
          /\ rooms[r].canvasState.objects # <<>>

\* The open connections other than c in the users map of c's room.
RemainingMembers(c) ==
    {d \in OpenConns \ {c} : d \in UserKeys(rooms[currentRoom[c]].users)}

\* The events of the canvas mutation messages.
MutationEvents ==
    {"canvas:object:added", "canvas:object:modified",
     "canvas:object:removed", "canvas:clear", "theme-change"}

\* Connection c's mutation message with that event and payload was handled.
MutationHandled(c, event, body) ==
    \/ /\ event = "canvas:object:added"
       /\ \E obj \in CanvasObjects :
             body = [object |-> obj] /\ ObjectAdded(c, obj)
    \/ /\ event = "canvas:object:modified"
       /\ \E obj \in CanvasObjects :
             body = [object |-> obj] /\ ObjectModified(c, obj)
    \/ /\ event = "canvas:object:removed"
       /\ \E id \in ObjIds :
             body = [objectId |-> id] /\ ObjectRemoved(c, id)
    \/ /\ event = "canvas:clear"
       /\ body = [none |-> "none"]
       /\ CanvasClear(c)
    \/ /\ event = "theme-change"
       /\ \E data \in ThemeData : body = data /\ ThemeChange(c, data)

\* What the step delivered to connection d.
DeliveredTo(d) == {m \in sent' : m.to = d}

\* The step delivered the sender's message, once and with its event and
\* payload as issued, to every other member of the sender's room, and
\* delivered nothing else to anyone.
ForwardedOnce(c, event, body) ==
    /\ \A d \in RemainingMembers(c) :
          /\ Cardinality(DeliveredTo(d)) = 1
          /\ \A m \in DeliveredTo(d) :
                m.from = c /\ m.event = event /\ m.body = body
    /\ \A m \in sent' :
          m.from = c /\ m.event = event /\ m.body = body /\ m.to # c

\* C23: for a single sender, its mutation messages reach every other member
\* of its room in the order the sender issued them, for every interleaving
\* with other senders: the step that handles a mutation message delivers
\* exactly that message once to each other member before any later message
\* is taken up, and a mutation message is delivered in no other step, so
\* nothing is reordered, duplicated or held back.
C23_MutationsForwardedInOrder ==
    [][/\ \A c \in Conns :
             BoundToStored(c) =>
                /\ \A obj \in CanvasObjects :
                      /\ ObjectAdded(c, obj) =>
                            ForwardedOnce(c, "canvas:object:added",
                                          [object |-> obj])
                      /\ ObjectModified(c, obj) =>
                            ForwardedOnce(c, "canvas:object:modified",
                                          [object |-> obj])
                /\ \A id \in ObjIds :
                      ObjectRemoved(c, id) =>
                         ForwardedOnce(c, "canvas:object:removed",
                                       [objectId |-> id])
                /\ CanvasClear(c) =>
                      ForwardedOnce(c, "canvas:clear", [none |-> "none"])
                /\ \A data \in ThemeData :
                      ThemeChange(c, data) =>
                         ForwardedOnce(c, "theme-change", data)
       /\ \A m \in sent' :
             m.event \in MutationEvents =>
                MutationHandled(m.from, m.event, m.body)]_vars

\* s2 received s1's object:modified for o1 right after s2's own
\* object:added put o2 behind o1 in the list: two senders interleaved.
C23_Witness ==
    /\ Msg("s1", "R1", "s2", "canvas:object:modified",
           [object |-> [id |-> "o1", data |-> "v2"]]) \in sent
    /\ "R1" \in DOMAIN rooms
    /\ UserKeys(rooms["R1"].users) = {"s1", "s2"}
    /\ rooms["R1"].canvasState.objects =
          <<[id |-> "o1", data |-> "v2"], [id |-> "o2", data |-> "v1"]>>

\* Connection c's join-room for room r with profile u passed its checks in
\* this step.
JoinedInStep(c, r, u) ==
    \E p \in Passwords : JoinAccepted(c, r, p, u) /\ JoinRoom(c, r, p, u)

\* C24: for each successful join of connection c, every other connection
\* bound to the room at that moment receives exactly one user-joined
\* carrying c's user, c receives none for its own join, and user-joined is
\* delivered only by the step that handles the join it reports, so a member
\* sees the user-joined events of successive joins in join order.
C24_UserJoinedOncePerJoin ==
    [][/\ \A c \in Conns, r \in RoomIds, u \in UserData :
             JoinedInStep(c, r, u) =>
                /\ \A d \in OpenConns \ {c} :
                      currentRoom[d] = r =>
                         /\ Cardinality({m \in DeliveredTo(d) :
                                            m.event = "user-joined"}) = 1
                         /\ \A m \in DeliveredTo(d) :
                               m.from = c /\ m.body = MakeUser(c, u)
                /\ \A m \in DeliveredTo(c) : m.event # "user-joined"
       /\ \A m \in sent' :
             m.event = "user-joined" =>
                \E r \in RoomIds, u \in UserData :
                   /\ JoinedInStep(m.from, r, u)
                   /\ m.body = MakeUser(m.from, u)
                   /\ m.group = r]_vars

\* s2 received user-joined for s1 after s1 had received the one for s2's
\* join: both joined the room, s2 first.
C24_Witness ==
    /\ \E m \in sent :
          m.event = "user-joined" /\ m.to = "s2" /\ m.body.id = "s1"
    /\ "R1" \in DOMAIN rooms
    /\ joinCount["R1"]["s1"] >= 1
    /\ joinCount["R1"]["s2"] >= 1
    /\ UserKeys(rooms["R1"].users) = {"s1", "s2"}

\* The step is a mutation message of a connection bound to room r, and the
\* room's canvasState afterwards is that mutation applied to the one before.
MutationApplied(r) ==
    \E c \in Conns :
       /\ currentRoom[c] = r
       /\ \/ \E obj \in CanvasObjects :
                \/ /\ ObjectAdded(c, obj)
                   /\ ObjectsAfter(c) = Append(ObjectsBefore(c), obj)
                \/ /\ ObjectModified(c, obj)
                   /\ Len(ObjectsAfter(c)) = Len(ObjectsBefore(c))
                   /\ \A i \in 1..Len(ObjectsBefore(c)) :
                         ObjectsAfter(c)[i] \in {ObjectsBefore(c)[i], obj}
                \/ /\ ObjectRemoved(c, obj.id)
                   /\ ObjectsAfter(c) = OthersInOrder(ObjectsBefore(c), obj.id)
          \/ CanvasClear(c) /\ ObjectsAfter(c) = <<>>
          \/ \E data \in ThemeData :
                ThemeChange(c, data) /\ ObjectsAfter(c) = ObjectsBefore(c)

\* C25: on a successful join room-joined goes to the joining connection
\* only; its canvasState is the room's document at that moment, objects,
\* theme and canvasColor; its users is the room's member list with the
\* joiner in it; and that document changes only by the mutation messages
\* the server processes for the room, one after the other in the order they
\* arrive, from the empty document the room was created with.
C25_RoomJoinedCarriesDocument ==
    [][/\ \A c \in Conns, r \in RoomIds, u \in UserData :
             JoinedInStep(c, r, u) =>
                /\ Cardinality({m \in sent' : m.event = "room-joined"}) = 1
                /\ \A m \in sent' :
                      m.event = "room-joined" =>
                         /\ m.to = c
                         /\ m.body.roomId = r
                         /\ m.body.canvasState = rooms[r].canvasState
                         /\ m.body.canvasState = rooms'[r].canvasState
                         /\ m.body.users = rooms'[r].users
                         /\ UserKeys(m.body.users) =
                               UserKeys(rooms[r].users) \cup {c}
                         /\ \E i \in 1..Len(m.body.users) :
                               m.body.users[i] = MakeUser(c, u)
       /\ \A r \in DOMAIN rooms \cap DOMAIN rooms' :
             rooms'[r].canvasState # rooms[r].canvasState =>
                \/ MutationApplied(r)
                \/ /\ \E c \in Conns, u \in UserData, p \in Passwords :
                         CreateRoom(c, u, r, p)
                   /\ rooms'[r].canvasState.objects = <<>>]_vars

\* room-joined went to s2 with the document two object:added messages and
\* a theme-change had built before the join, and with both members in its
\* user list.
C25_Witness ==
    \E m \in sent :
       /\ m.event = "room-joined"
       /\ m.to = "s2"
       /\ m.body.canvasState.objects =
             <<[id |-> "o2", data |-> "v1"], [id |-> "o1", data |-> "v2"]>>
       /\ m.body.canvasState.theme = "light"
       /\ Len(m.body.users) = 2

\* C26: right after create-room by an Unbound connection c the new room has
\* users = {c}, creatorId = c, no objects, theme "dark", canvasColor
\* "#1a1a1a" and empty rejoinCounts; c is bound to it; room-created with the
\* roomId and password goes to c only and no other connection receives
\* anything.
C26_CreatedRoomIsFresh ==
    [][\A c \in Conns, u \in UserData, r \in RoomIds, p \in Passwords :
          (currentRoom[c] = NoRoom /\ CreateRoom(c, u, r, p)) =>
             /\ r \in DOMAIN rooms'
             /\ UserKeys(rooms'[r].users) = {c}
             /\ Len(rooms'[r].users) = 1
             /\ rooms'[r].creatorId = c
             /\ rooms'[r].canvasState =
                   [objects |-> <<>>, theme |-> "dark",
                    canvasColor |-> "#1a1a1a"]
             /\ DOMAIN rooms'[r].rejoinCounts = {}
             /\ rooms'[r].password = p
             /\ currentRoom'[c] = r
             /\ r \in joined'[c]
             /\ \A m \in sent' :
                   /\ m.to = c
                   /\ m.event = "room-created"
                   /\ m.body.roomId = r
                   /\ m.body.password = p
             /\ Cardinality(sent') = 1]_vars

\* room-created went to s2 while s1 is open, and s2 is the creator and only
\* member of its room.
C26_Witness ==
    /\ \E m \in sent : m.event = "room-created" /\ m.to = "s2"
    /\ status["s1"] = "open"
    /\ currentRoom["s2"] \in DOMAIN rooms
    /\ rooms[currentRoom["s2"]].creatorId = "s2"
    /\ UserKeys(rooms[currentRoom["s2"]].users) = {"s2"}

\* C30: after leave-room by a connection bound to room R the connection is
\* not in R.users, is Unbound and out of R's broadcast group, and each
\* remaining member of R has received exactly one user-left carrying its
\* connection id, and nothing else was sent; leave-room on an Unbound
\* connection changes nothing and sends nothing.
C30_LeaveUnbinds ==
    [][\A c \in Conns :
          LeaveRoom(c) =>
             IF currentRoom[c] = NoRoom
             THEN /\ rooms' = rooms
                  /\ sent' = {}
                  /\ BindingUnchanged
             ELSE /\ currentRoom'[c] = NoRoom
                  /\ currentUser'[c] = NoUser
                  /\ currentRoom[c] \notin joined'[c]
                  /\ currentRoom[c] \in DOMAIN rooms' =>
                        c \notin UserKeys(rooms'[currentRoom[c]].users)
                  /\ currentRoom[c] \in DOMAIN rooms =>
                        \A d \in RemainingMembers(c) :
                           Cardinality({m \in sent' : m.to = d}) = 1
                  /\ \A m \in sent' :
                        /\ m.event = "user-left"
                        /\ m.body = [userId |-> c]
                        /\ m.to # c]_vars

\* s2 received user-left for s1, is still a member of the room, and s1 is
\* unbound and out of every broadcast group.
C30_Witness ==
    /\ Msg("s1", currentRoom["s2"], "s2", "user-left", [userId |-> "s1"])
          \in sent
    /\ status["s1"] = "open"
    /\ currentRoom["s1"] = NoRoom
    /\ joined["s1"] = {}
    /\ currentRoom["s2"] \in DOMAIN rooms
    /\ UserKeys(rooms[currentRoom["s2"]].users) = {"s2"}

\* Some create-room stored a room under id r in this step.
CreatedNow(r) ==
    \E c \in Conns, u \in UserData, p \in Passwords, later \in now..(now + ClockTick) :
       CreateRoomReading(c, u, r, p, later)

\* C27: for every room in the store expiresAt - createdAt is exactly 24
\* hours, and no operation other than the room's creation changes its
\* expiresAt, createdAt or password.
C27_LifetimeExact ==
    [][/\ \A r \in DOMAIN rooms' :
             rooms'[r].expiresAt - rooms'[r].createdAt = LIFETIME
       /\ \A r \in DOMAIN rooms \cap DOMAIN rooms' :
             \/ CreatedNow(r)
             \/ /\ rooms'[r].expiresAt = rooms[r].expiresAt
                /\ rooms'[r].createdAt = rooms[r].createdAt
                /\ rooms'[r].password = rooms[r].password]_vars

\* C28: a cleanup sweep removes exactly the rooms with now > expiresAt:
\* afterwards none of them is in the store, every room with
\* now <= expiresAt is still there unchanged, and no connection is unbound
\* or disconnected by the sweep.
C28_SweepRemovesExactlyExpired ==
    [][Cleanup =>
          /\ \A r \in DOMAIN rooms :
                IF now > rooms[r].expiresAt
                THEN r \notin DOMAIN rooms'
                ELSE r \in DOMAIN rooms' /\ rooms'[r] = rooms[r]
          /\ DOMAIN rooms' \subseteq DOMAIN rooms
          /\ status' = status
          /\ BindingUnchanged]_vars

\* After a sweep one room past its expiresAt is gone while an open
\* connection is still bound to its id, and a room that has not expired is
\* still stored.
C28_Witness ==
    /\ sent = {}
    /\ \E r \in DOMAIN created :
          /\ now > created[r].expiresAt
          /\ r \notin DOMAIN rooms
          /\ \E c \in OpenConns : currentRoom[c] = r
    /\ \E r \in DOMAIN rooms : now <= rooms[r].expiresAt

\* The room stored under id r is past its expiresAt.
StoredExpired(r) == r \in DOMAIN rooms /\ now > rooms[r].expiresAt

\* C29: with the cleanup timer scheduled fairly, every room whose expiresAt
\* has passed is eventually removed from the store, also while members stay
\* bound to it and keep sending mutations.
C29_ExpiredEventuallyRemoved ==
    \A r \in RoomIds : StoredExpired(r) ~> ~StoredExpired(r)

\* A member's canvas:clear was broadcast in a room past its expiresAt that
\* is still in the store with both connections in it.
C29_Witness ==
    \E r \in DOMAIN rooms :
       /\ now > rooms[r].expiresAt
       /\ Len(rooms[r].users) = 2
       /\ \E m \in sent : m.event = "canvas:clear" /\ m.group = r

\* C31: within a room's lifetime, from its creation until now exceeds its
\* expiresAt, rejoinCounts persists across leave, disconnect and reconnect:
\* the room stays in the store, no entry of its rejoinCounts is removed or
\* decreased, and every stored count is between 0 and 3.  A create-room
\* that stores a new room under the id starts another lifetime.
C31_RejoinCountsPersist ==
    [][\A r \in DOMAIN rooms :
          ( /\ ~Expired(rooms[r])
            /\ ~ \E c \in Conns, u \in UserData, p \in Passwords :
                    CreateRoom(c, u, r, p) )
          => /\ r \in DOMAIN rooms'
             /\ \A k \in DOMAIN rooms[r].rejoinCounts :
                   /\ k \in DOMAIN rooms'[r].rejoinCounts
                   /\ rooms'[r].rejoinCounts[k] >= rooms[r].rejoinCounts[k]
             /\ \A k \in DOMAIN rooms'[r].rejoinCounts :
                   /\ rooms'[r].rejoinCounts[k] >= 0
                   /\ rooms'[r].rejoinCounts[k] <= MAX_REJOINS]_vars

\* The step delivered one message of connection c, addressed to the group
\* of c's roomId, to every other open connection subscribed to that roomId
\* and to nobody else, and it is a mutation event.
BroadcastToSubscribers(c) ==
    /\ {m.to : m \in sent'} =
          {d \in OpenConns \ {c} : currentRoom[c] \in joined[d]}
    /\ \A m \in sent' :
          /\ m.from = c
          /\ m.group = currentRoom[c]
          /\ m.event \in MutationEvents
    /\ Cardinality(sent') = Cardinality({m.to : m \in sent'})

\* Connection c is bound to a room that is in the store past its expiresAt.
BoundToExpired(c) ==
    BoundToStored(c) /\ now > rooms[currentRoom[c]].expiresAt

\* C32: mutation handlers never check expiry.  A mutation of a connection
\* bound to a room that is past its expiresAt and still in the store is
\* applied to the room's canvasState and broadcast; once the room has been
\* removed from the store, by the sweep or by validate-room or join-room, a
\* mutation of a connection still bound to its id changes no room state,
\* raises no error, and is still broadcast to the other connections
\* subscribed to that roomId.
C32_MutationsIgnoreExpiry ==
    [][\A c \in Conns :
          /\ BoundToExpired(c) =>
                /\ \A obj \in CanvasObjects :
                      /\ ObjectAdded(c, obj) =>
                            /\ ObjectsAfter(c) = Append(ObjectsBefore(c), obj)
                            /\ BroadcastToSubscribers(c)
                      /\ ObjectModified(c, obj) =>
                            /\ HoldsId(ObjectsBefore(c), obj.id) =>
                                  /\ StoredFor(ObjectsAfter(c), obj)
                                  /\ Len(ObjectsAfter(c)) = Len(ObjectsBefore(c))
                            /\ BroadcastToSubscribers(c)
                      /\ ObjectRemoved(c, obj.id) =>
                            /\ ~HoldsId(ObjectsAfter(c), obj.id)
                            /\ BroadcastToSubscribers(c)
                /\ CanvasClear(c) =>
                      /\ ObjectsAfter(c) = <<>>
                      /\ BroadcastToSubscribers(c)
                /\ \A data \in ThemeData :
                      ThemeChange(c, data) =>
                         /\ rooms'[currentRoom[c]].canvasState.theme = data.theme
                         /\ BroadcastToSubscribers(c)
          /\ ( /\ currentRoom[c] # NoRoom
               /\ currentRoom[c] \notin DOMAIN rooms
               /\ MutationBy(c) )
             => /\ rooms' = rooms
                /\ BroadcastToSubscribers(c)]_vars

\* An object:added of s1 reached s2 and was stored in a room that is past
\* its expiresAt and still in the store, both connections bound to it.
C32_Witness ==
    /\ "R1" \in DOMAIN rooms
    /\ now > rooms["R1"].expiresAt
    /\ currentRoom["s1"] = "R1"
    /\ currentRoom["s2"] = "R1"
    /\ Msg("s1", "R1", "s2", "canvas:object:added",
           [object |-> [id |-> "o2", data |-> "v1"]]) \in sent
    /\ rooms["R1"].canvasState.objects = <<[id |-> "o2", data |-> "v1"]>>

\* C34: in every reachable state every entry of every room's users map
\* belongs to a connection that is still connected and whose current
\* binding is that room: a disconnected connection is in the users map of
\* no room, and the member list of a room-joined holds no departed
\* connection.
C34_UsersAreBoundConnections ==
    /\ \A r \in DOMAIN rooms :
          \A k \in UserKeys(rooms[r].users) :
             status[k] = "open" /\ currentRoom[k] = r
    /\ \A m \in sent :
          m.event = "room-joined" =>
             \A k \in UserKeys(m.body.users) : status[k] = "open"

\* C35: in every reachable state no two entries of a room's
\* canvasState.objects have the same id, whatever object:added,
\* object:modified, object:removed and clear messages were handled, an
\* object:added whose id is already in the list included.
C35_ObjectIdsUnique ==
    \A r \in DOMAIN rooms :
       \A i, j \in 1..Len(rooms[r].canvasState.objects) :
          rooms[r].canvasState.objects[i].id =
             rooms[r].canvasState.objects[j].id => i = j

\* C38: whenever no message is on its way, a browser whose SocketManager
\* holds a current room is bound to that room at the server.
C38_ClientRoomAgreesWithServer ==
    InFlight = 0 =>
       \A c \in Conns :
          clientRoom[c] # NoRoom => currentRoom[c] = clientRoom[c]


\* A user of connection c changed the canvas by hand in this step: drew an
\* object or a shape, reshaped an object, or erased one.
LocalChange(c) ==
    /\ InWorkspace(c)
    /\ canvas'[c] # canvas[c]
    /\ \E obj \in LocalObjects :
          \/ DrawObject(c, obj)
          \/ DrawShape(c, obj)
          \/ TransformObject(c, obj)
          \/ EraseObject(c, obj.id)

\* C37: a step in which a user adds, modifies or removes an object by hand
\* sends exactly one message to the server, whatever
\* isReceivingRemoteChanges is at that moment.
C37_LocalChangeSentOnce ==
    [][\A c \in Conns :
          LocalChange(c) => Len(toServer'[c]) = Len(toServer[c]) + 1]_vars


\* The browser of connection c applies a remote change in this step: one of
\* the four canvas events, the snapshot of room-joined, or the callback that
\* completes an earlier applyRemoteObjectAdded or loadCanvasState.
RemoteApply(c) ==
    \/ applyRemoteObjectAdded(c)
    \/ applyRemoteObjectModified(c)
    \/ applyRemoteObjectRemoved(c)
    \/ applyRemoteClear(c)
    \/ onRoomJoined(c)
    \/ \E i \in 1..Len(enlivening[c]) : EnlivenCallback(c, i)

\* C36: a step in which a browser applies a remote change sends nothing to
\* the server.
C36_RemoteApplyEmitsNothing ==
    [][\A c \in Conns :
          (toServer'[c] # toServer[c] /\ RemoteApply(c)) => FALSE]_vars


\* The objects of a list, as a set of id and data.
ObjectSet(objects) == {objects[i] : i \in 1..Len(objects)}

\* Nothing is on its way and no enlivenObjects callback is waiting: every
\* broadcast has been delivered and applied.
Quiescent ==
    /\ InFlight = 0
    /\ \A c \in Conns : enlivening[c] = <<>>

\* Connection c is a member of the room at the server and its browser is in
\* the workspace of that room.
MemberReplica(c, r) ==
    /\ r \in DOMAIN rooms
    /\ currentRoom[c] = r
    /\ c \in UserKeys(rooms[r].users)
    /\ clientRoom[c] = r
    /\ clientUser[c] # NoUserId

\* C33: when every message has been delivered and applied, the canvas of
\* each member holds the same objects, with the same data, as the room's
\* canvasState.objects at the server.
C33_ReplicasConverge ==
    Quiescent =>
       \A c \in Conns : \A r \in DOMAIN rooms :
          MemberReplica(c, r) =>
             ObjectSet(canvas[c]) = ObjectSet(rooms[r].canvasState.objects)


\* C39: undoStack never holds more than maxHistorySize actions; recording a
\* local action with the user id known empties redoStack; recording a
\* remote action, or any action while the user id is not known, changes
\* neither stack; undo with an empty undoStack and redo with an empty
\* redoStack change nothing.
C39_HistoryStacks ==
    /\ [](Len(undoStack) <= maxHistorySize)
    /\ [][/\ (userId # NoUserId
                /\ \E type \in {"CLEAR", "MODIFY"} : recordAction(type, FALSE))
             => redoStack' = <<>>
          /\ (\E type \in {"CLEAR", "MODIFY"}, isRemote \in BOOLEAN :
                 /\ isRemote \/ userId = NoUserId
                 /\ recordAction(type, isRemote))
             => UNCHANGED <<undoStack, redoStack>>
          /\ (undoStack = <<>> /\ undo) => UNCHANGED vars
          /\ (redoStack = <<>> /\ redo) => UNCHANGED vars]_vars

\* The history is full and an undone action waits to be redone.
C39_Witness ==
    /\ userId # NoUserId
    /\ Len(undoStack) + Len(redoStack) = maxHistorySize
    /\ redoStack # <<>>

====
